---- MODULE Spec2Model ----
\* Model of the DRM video output pipeline of softhddevice (src/video_drm.c):
\* the ingest path (DrmDisplayHandlerThread / VideoRenderFrame), the software
\* deinterlace thread (VideoFilterThread), the presentation engine
\* (DrmDisplayFrame / DrmFrame2Drm / DrmCleanDrm) and the controller calls
\* (VideoSetClosing, VideoSetTrickSpeed).  Every thread is a program counter
\* plus its locals; one action is one stretch of code between two accesses to
\* state another thread can see.
EXTENDS Integers, Sequences, FiniteSets, TLC

\* ---------------------------------------------------------------- constants
\* src/video_drm.c:63
VIDEO_SURFACES_MAX == 4
\* src/video_drm.c:135   struct drm_buf bufs[36]
PoolSize == 36
\* src/video_drm.c:784   diff > 55 * 90
DupMs == 55
\* src/video_drm.c:794   diff < -25 * 90
DropMs == 25
\* src/video_drm.c:784   ticks of the 90 kHz clock per millisecond
TicksPerMs == 90
\* src/video_drm.c:764   frame->pts += 1800
FieldTicks == 1800
\* src/video_drm.c:1192  "bwdif=1:-1:0": mode 1 sends one frame per field
FilterFieldRate == 2
\* src/video_drm.c:594   DrmDisplayFrame starts once two frames are queued
StartFill == 2

\* ------------------------------------------------------------------- bounds
\* frames the decoder hands to VideoRenderFrame in one run
MaxFrames == 2
\* early-frame re-polls counted before the audio clock has to move on
MaxDup == 1
\* calls of VideoSetClosing in one run
MaxClose == 1
\* calls of VideoSetTrickSpeed in one run
MaxTrick == 1
\* how far below zero a ring counter is followed
MaxUnder == 2

\* ------------------------------------------------------------------ helpers
\* stand-in for AV_NOPTS_VALUE (INT64_MIN), outside every pts and clock value
AV_NOPTS_VALUE == 0 - 1000000

NULL == 0
\* act_buf / buf values besides the pool indices 0 .. PoolSize-1
BLACK == 0 - 1
NOBUF == 0 - 2
\* framebuffer ids handed out by drmModeAddFB2: black buffer, then pool slots
BlackFb == 1
PoolFb(i) == 10 + i

InIds == 1 .. MaxFrames
ObjIds == 1 .. (MaxFrames + FilterFieldRate * MaxFrames)
\* the f-th frame the filter produces for the k-th decoded frame
OutId(k, f) == MaxFrames + FilterFieldRate * (k - 1) + f

\* presentation timestamps the decoder stamps on frames
PtsSet == {9000}
\* offsets of the audio clock against a frame's pts that hit both thresholds
DiffSet == {0 - 2251, 0 - 2250, 0, 4950, 4951}
\* a decoded frame: interlaced flag and PRIME fd (0: software YUV420P frame)
Kinds == {[il |-> 0, fd |-> 1], [il |-> 0, fd |-> 2], [il |-> 1, fd |-> 0]}

VARIABLES
    \* ring 1 (decoder -> deinterlacer)
    FramesRb, FramesWrite, FramesRead, FramesFilled,
    \* ring 2 (-> presentation engine)
    SurfacesRb, FramesDeintWrite, FramesDeintRead, FramesDeintFilled,
    \* flags and settings
    Closing, Deint_Close, TrickSpeed, FilterInit, SWDeinterlacer, VideoAudioDelay,
    \* statistics
    StartCounter, FramesDuped, FramesDropped,
    \* buffers
    bufs, prime_buffers, front_buf, act_fb_id, act_buf, second_field, lastframe,
    \* display hardware: framebuffer on the video plane, flip in flight
    planeFb, pendingFb,
    \* presentation thread: position and locals of DrmFrame2Drm
    \* (esetbuf: DrmSetBuf was called for the frame in hand)
    epc, eframe, ebuf, esetbuf,
    \* the audio clock and diff read by the step just taken, if it polled
    polled,
    \* display handler thread: position and the frame being handed in
    ipc, iframe,
    \* filter thread: position, locals, and the filter graph
    fpc, fframe, thread_close, filt_frame, tails, filtQ, filtEof,
    \* the frame objects
    frames, nframes,
    \* history: frames written to a ring and not yet read, first order error,
    \* frames bound to the framebuffer on the plane and to the one in flight
    queued1, queued2, fifo1_ok, fifo2_ok, planeFrame, pendingFrame,
    \* calls made by the controller, and the frames that were queued in ring 2
    \* when VideoSetClosing was called with a buffer allocated
    nclose, ntrick, doomed,
    \* frames committed since VideoSetClosing was called, while the teardown it
    \* asked for is not complete (NoTeardown: none asked for)
    teardown,
    \* the device and the OSD, a record: card (connectors and planes as the
    \* kernel reports them), zpos (of each plane), osd_rect (the OSD plane's
    \* on-screen rectangle), hdr (screen size policy), connector_id, mode,
    \* video_plane, osd_plane, use_zpos, zpos_overlay, zpos_primary (the fields
    \* Drm_find_dev fills in), find_ret (its return value), buf_osd (origin,
    \* all bytes zero, mapped), osd_call (what the last OSD call did), vpc (how
    \* far the initialisation of the video module has come)
    dev,
    \* the context and its threads, a record: render (calloc .. free),
    \* VideoThread (the thread handle), threads, xpc (the caller's position in
    \* VideoExit), stale (who has used the context after it was freed), flip
    \* (the last page-flip commit), pflip_pending
    life,
    \* the OpenGL OSD worker (cOglThread), a record: commands (the queue),
    \* stalled, the worker's and the producers' positions, the commands
    \* executed so far
    ogl,
    \* a call of a function that is examined by itself, a record: op (the
    \* function), its arguments and its result
    fn

ringVars == <<FramesRb, FramesWrite, FramesRead, FramesFilled,
              SurfacesRb, FramesDeintWrite, FramesDeintRead, FramesDeintFilled>>
ring1Vars == <<FramesRb, FramesWrite, FramesRead, FramesFilled>>
ring2Vars == <<SurfacesRb, FramesDeintWrite, FramesDeintRead, FramesDeintFilled>>
flagVars == <<Closing, Deint_Close, TrickSpeed, FilterInit, SWDeinterlacer, VideoAudioDelay>>
statVars == <<StartCounter, FramesDuped, FramesDropped>>
bufVars == <<bufs, prime_buffers, front_buf, act_fb_id, act_buf, second_field, lastframe>>
hwVars == <<planeFb, pendingFb>>
engVars == <<epc, eframe, ebuf, esetbuf>>
ingVars == <<ipc, iframe>>
filVars == <<fpc, fframe, thread_close, filt_frame, tails, filtQ, filtEof>>
objVars == <<frames, nframes>>
logVars == <<queued1, queued2, fifo1_ok, fifo2_ok, planeFrame, pendingFrame>>
ctlVars == <<nclose, ntrick, doomed>>

sideVars == <<dev, life, ogl, fn>>
streamVars == <<ringVars, flagVars, statVars, bufVars, hwVars, engVars, ingVars, filVars,
                objVars, logVars, ctlVars, polled, teardown>>

vars == <<ringVars, flagVars, statVars, bufVars, hwVars, engVars, ingVars, filVars,
          objVars, logVars, ctlVars, polled, teardown, sideVars>>

\* -------------------------------------------------------- frame objects
NoFrame == [st |-> "none", pts |-> 0, il |-> 0, fd |-> 0, shown |-> 0]

\* av_frame_free(&p): frees the frame p points to; a second free is recorded
AvFrameFree(fr, id) ==
    IF id = NULL THEN fr
    ELSE [fr EXCEPT ![id].st = IF @ = "live" THEN "freed" ELSE "dfree"]

\* cursor arithmetic of both rings
NextIdx(i) == (i + 1) % VIDEO_SURFACES_MAX

\* DrmDisplayHandlerThread: decode more input only while both rings have room
MayDecode(deintFilled, filled) ==
    deintFilled < VIDEO_SURFACES_MAX - 1 /\ filled < VIDEO_SURFACES_MAX - 1

\* VideoFilterThread fillframe: room in ring 2
MayFill(deintFilled) == deintFilled < VIDEO_SURFACES_MAX - 1

\* frame->interlaced_frame && SWDeinterlacer
ViaFilter(il, swdeint) == il # 0 /\ swdeint # 0

\* int diff = frame->pts - audio_clock - VideoAudioDelay
SyncDiff(pts, clock, delay) == pts - clock - delay

\* the policy with the early threshold one millisecond later
SyncVerdictLateDup(diff, trick) ==
    IF diff > (DupMs + 1) * TicksPerMs /\ trick = 0 THEN "dup"
    ELSE IF diff < 0 - DropMs * TicksPerMs /\ trick = 0 THEN "drop"
    ELSE "show"

\* the show / duplicate / drop policy of DrmFrame2Drm
SyncVerdict(diff, trick) ==
    IF diff > DupMs * TicksPerMs /\ trick = 0 THEN "dup"
    ELSE IF diff < 0 - DropMs * TicksPerMs /\ trick = 0 THEN "drop"
    ELSE "show"

\* a stage that passes the filter's timestamp on as it is
HalfPtsNot(p) == p

\* filt_frame->pts = filt_frame->pts / 2
HalfPts(p) == p \div 2

\* frame taken off ring 2 by the present path: progressive, or first pass done
Consumes(il, second) == il = 0 \/ second = 0

\* buf->frame of the buffer a commit made current
BufFrame(b) == IF b \in 0 .. (PoolSize - 1) THEN bufs[b].frame ELSE NULL

\* no audio clock was read
NoPoll == [clock |-> AV_NOPTS_VALUE, diff |-> 0, seen |-> FALSE]

NoBuf == [fb_id |-> 0, fd_prime |-> 0, frame |-> NULL, mapped |-> FALSE]

\* drmModeAtomicCommit with DRM_MODE_PAGE_FLIP_EVENT: the framebuffer whose
\* flip is in flight, none when the kernel rejects the commit or the id is 0
Flip(fb, ok) == IF ok THEN fb ELSE 0

\* no teardown is outstanding
NoTeardown == 0 - 1
\* the teardown is complete once Closing is reset with the black buffer on
\* the plane
TeardownAfter(t, closing, fb) == IF closing = 0 /\ fb = BlackFb THEN NoTeardown ELSE t
\* one more frame committed: none, one, more than one
TeardownCommit(t) == IF t = NoTeardown THEN t ELSE IF t = 0 THEN 1 ELSE 2


\* ------------------------------------------------------------- DRM device
\* longest lists of connectors and of planes the kernel reports
MaxConnectors == 2
MaxPlanes == 2

\* sequences over S of length 0 .. n
SeqsUpTo(S, n) == UNION {[1 .. k -> S] : k \in 0 .. n}

\* drmModeModeInfo: the fields Drm_find_dev looks at
HD == [hdisplay |-> 1920, vdisplay |-> 1080, vrefresh |-> 50, interlace |-> FALSE]
HDi == [hdisplay |-> 1920, vdisplay |-> 1080, vrefresh |-> 50, interlace |-> TRUE]
HDready == [hdisplay |-> 1280, vdisplay |-> 720, vrefresh |-> 50, interlace |-> FALSE]
SD == [hdisplay |-> 720, vdisplay |-> 576, vrefresh |-> 50, interlace |-> FALSE]

\* connectors as drmModeGetConnector reports them: connection state, whether
\* drmModeGetEncoder finds the connector's encoder, and the mode list.  A
\* disconnected connector has no modes; one whose state the driver cannot
\* tell (DRM_MODE_UNKNOWNCONNECTION) may list modes.
ConnectorKinds ==
    { [connection |-> "connected", encoder |-> TRUE, modes |-> <<HDi, HD, HDready>>],
      [connection |-> "connected", encoder |-> TRUE, modes |-> <<SD>>],
      [connection |-> "connected", encoder |-> FALSE, modes |-> <<HD, HDready>>],
      [connection |-> "disconnected", encoder |-> FALSE, modes |-> <<>>],
      [connection |-> "unknown", encoder |-> FALSE, modes |-> <<HD, HDready>>] }

\* planes as drmModeGetPlane reports them: type, format list, and the CRTCs
\* of possible_crtcs ("selected": the CRTC of the encoder; "other": a CRTC
\* the encoder can drive but does not; "none": no CRTC of the encoder)
PlaneKinds ==
    { [type |-> "primary", formats |-> <<"ARGB8888">>, crtc |-> "selected"],
      [type |-> "primary", formats |-> <<"ARGB8888", "NV12">>, crtc |-> "selected"],
      [type |-> "overlay", formats |-> <<"NV12">>, crtc |-> "selected"],
      [type |-> "overlay", formats |-> <<"ARGB8888">>, crtc |-> "selected"],
      [type |-> "overlay", formats |-> <<"NV12", "ARGB8888">>, crtc |-> "selected"],
      [type |-> "overlay", formats |-> <<"NV12">>, crtc |-> "other"],
      [type |-> "overlay", formats |-> <<"ARGB8888">>, crtc |-> "none"] }

Cards ==
    [connectors : SeqsUpTo(ConnectorKinds, MaxConnectors),
     planes : SeqsUpTo(PlaneKinds, MaxPlanes)]

\* object ids and the zpos property the driver gives the j-th plane
ConnectorId(i) == 20 + i
PlaneId(j) == 30 + j
PlaneZpos(j) == j - 1
PlaneIds == {PlaneId(j) : j \in 1 .. (MaxPlanes + 1)}

\* render->mode after calloc; connector: the connector a mode was copied from
NoMode == [hdisplay |-> 0, vdisplay |-> 0, vrefresh |-> 0, interlace |-> FALSE,
           connector |-> 0]
ModeOf(m, cid) == [hdisplay |-> m.hdisplay, vdisplay |-> m.vdisplay,
                   vrefresh |-> m.vrefresh, interlace |-> m.interlace, connector |-> cid]

\* the two tests of the mode loop: Mode HD (!hdr) and Mode HDready (hdr)
IsHD(m) == m.hdisplay = 1920 /\ m.vdisplay = 1080 /\ m.vrefresh = 50 /\ ~m.interlace
IsHDready(m) == m.hdisplay = 1280 /\ m.vdisplay = 720 /\ m.vrefresh = 50 /\ ~m.interlace
Wanted(m, h) == (IsHD(m) /\ h = 0) \/ (IsHDready(m) /\ h # 0)

\* the render fields Drm_find_dev writes, after calloc; encoder is its local
FoundNothing ==
    [connector_id |-> 0, encoder |-> 0, mode |-> NoMode, video_plane |-> 0,
     osd_plane |-> 0, use_zpos |-> 0, zpos_overlay |-> 0, zpos_primary |-> 0,
     ret |-> "ok"]

\* for (i = 0; i < connector->count_modes; i++): every matching mode is
\* copied to render->mode, the last one stays
RECURSIVE ScanModes(_, _, _, _, _)
ScanModes(ms, k, cid, h, cur) ==
    IF k > Len(ms) THEN cur
    ELSE ScanModes(ms, k + 1, cid, h, IF Wanted(ms[k], h) THEN ModeOf(ms[k], cid) ELSE cur)

\* for (i = 0; i < resources->count_connectors; i++): the mode loop inside
\* runs on the same i, so the next connector looked at is the one at index
\* count_modes + 1; a walk that comes back to an index never ends (after
\* Len(cs) + 1 rounds an index has come twice)
RECURSIVE ScanConnectors(_, _, _, _, _)
ScanConnectors(cs, i, rounds, h, r) ==
    IF i >= Len(cs) THEN r
    ELSE IF rounds > Len(cs) THEN [r EXCEPT !.ret = "hang"]
    ELSE LET c == cs[i + 1]
             usable == c.connection = "connected" /\ Len(c.modes) > 0
         IN IF usable /\ ~c.encoder
            THEN [r EXCEPT !.connector_id = ConnectorId(i + 1), !.ret = "errno"]
            ELSE ScanConnectors(cs, Len(c.modes) + 1, rounds + 1, h,
                    [r EXCEPT !.connector_id = IF usable THEN ConnectorId(i + 1) ELSE @,
                              !.encoder = IF usable THEN ConnectorId(i + 1) ELSE @,
                              !.mode = ScanModes(c.modes, 1, ConnectorId(i + 1), h, @)])

\* encoder->possible_crtcs & plane->possible_crtcs
CrtcsMeet(pl) == pl.crtc # "none"

\* case DRM_FORMAT_NV12 / case DRM_FORMAT_ARGB8888 for the j-th plane
TakePlane(r, pl, j, fmt) ==
    IF fmt = "NV12" /\ r.video_plane = 0
    THEN [r EXCEPT !.use_zpos = IF pl.type # "primary" THEN 1 ELSE @,
                   !.zpos_overlay = IF pl.type # "primary" THEN PlaneZpos(j) ELSE @,
                   !.video_plane = PlaneId(j),
                   !.osd_plane = IF @ = PlaneId(j) THEN 0 ELSE @]
    ELSE IF fmt = "ARGB8888" /\ r.osd_plane = 0
    THEN [r EXCEPT !.zpos_primary = IF pl.type # "overlay" THEN PlaneZpos(j) ELSE @,
                   !.osd_plane = PlaneId(j)]
    ELSE r

\* the plane loop and its format loop.  With no usable connector encoder is
\* still 0 and the test reads through a null pointer: the process faults, or
\* the read yields some mask (ub: "fault", "zero", "ones")
RECURSIVE ScanPlanes(_, _, _, _, _)
ScanPlanes(ps, j, k, ub, r) ==
    IF j > Len(ps) \/ r.ret # "ok" THEN r
    ELSE IF k > Len(ps[j].formats) THEN ScanPlanes(ps, j + 1, 1, ub, r)
    ELSE IF r.encoder = 0 /\ ub = "fault" THEN [r EXCEPT !.ret = "fault"]
    ELSE LET meet == IF r.encoder = 0 THEN ub = "ones" ELSE CrtcsMeet(ps[j])
         IN ScanPlanes(ps, j, k + 1, ub,
                       IF meet THEN TakePlane(r, ps[j], j, ps[j].formats[k]) ELSE r)

\* Drm_find_dev on a device c with screen size policy h
FindDev(c, h, ub) ==
    LET r == ScanConnectors(c.connectors, 0, 0, h, FoundNothing)
    IN IF r.ret # "ok" THEN r ELSE ScanPlanes(c.planes, 1, 1, ub, r)

\* the zpos properties as the driver sets them up
DefaultZpos == [id \in PlaneIds |-> id - PlaneId(1)]

\* the OSD plane shows nothing
NoRect == [on |-> FALSE, x |-> 0, y |-> 0]

\* no OSD call has been made
NoOsdCall == [op |-> "none", commit |-> FALSE, first |-> FALSE, lo |-> 0, hi |-> 0]

\* a board with an RGB primary plane and an NV12 overlay plane, one monitor
StdCard ==
    [connectors |-> <<[connection |-> "connected", encoder |-> TRUE,
                       modes |-> <<HDi, HD, HDready>>]>>,
     planes |-> <<[type |-> "primary", formats |-> <<"ARGB8888">>, crtc |-> "selected"],
                  [type |-> "overlay", formats |-> <<"NV12">>, crtc |-> "selected"]>>]

\* render and the device after VideoNewRender (calloc), before VideoInit
DevNew(c) ==
    [card |-> c, hdr |-> 0, connector_id |-> 0, mode |-> NoMode, video_plane |-> 0,
     osd_plane |-> 0, use_zpos |-> 0, zpos_overlay |-> 0, zpos_primary |-> 0,
     find_ret |-> "none", zpos |-> DefaultZpos, osd_rect |-> NoRect,
     buf_osd |-> [x |-> 0, y |-> 0, zero |-> TRUE, mapped |-> FALSE],
     osd_call |-> NoOsdCall, vpc |-> "new"]

\* the fields of render and the return value as Drm_find_dev leaves them
Found(d, r) ==
    [d EXCEPT !.connector_id = r.connector_id, !.mode = r.mode,
              !.video_plane = r.video_plane, !.osd_plane = r.osd_plane,
              !.use_zpos = r.use_zpos, !.zpos_overlay = r.zpos_overlay,
              !.zpos_primary = r.zpos_primary, !.find_ret = r.ret]

\* the threads of the video module
ThreadNames == {"video", "presentation", "deinterlacer"}
NoThread == [st |-> "none", cancel |-> FALSE, pos |-> "top"]

\* the render context allocated, no thread created yet
LifeIdle ==
    life = [render |-> "live", VideoThread |-> 0,
            threads |-> [t \in ThreadNames |-> NoThread],
            xpc |-> "idle", stale |-> {},
            flip |-> "none", pflip_pending |-> FALSE]

\* OGL_CMDQUEUE_SIZE of openglosd.h, scaled down
OGL_CMDQUEUE_SIZE == 2
\* the threads that call cOglThread::DoCmd
Producers == {1, 2}
ProducerIdle == [pc |-> "idle", cmd |-> 0]

\* cOglThread::cOglThread: stalled = false, the queue empty, Start()
OglIdle ==
    ogl = [commands |-> <<>>, stalled |-> FALSE, wpc |-> "init", wcmd |-> 0,
           running |-> TRUE, stop |-> "none", executed |-> <<>>, issued |-> 0,
           prod |-> [p \in Producers |-> ProducerIdle]]

\* a part of the program that the specification at hand leaves aside: the
\* device, the threads' lifetimes, the OSD worker, a call examined by itself
NotExamined == [op |-> "none"]

\* no call under examination
FnIdle == fn = NotExamined

\* ------------------------------------------------------------------- Init
\* VideoNewRender (calloc) followed by VideoInit: the black buffer is on the
\* video plane, no thread has run yet.  SWDeinterlacer is a setting made
\* before the render exists.
RenderInit ==
    /\ FramesRb = [i \in 0 .. (VIDEO_SURFACES_MAX - 1) |-> NULL]
    /\ FramesWrite = 0 /\ FramesRead = 0 /\ FramesFilled = 0
    /\ SurfacesRb = [i \in 0 .. (VIDEO_SURFACES_MAX - 1) |-> NULL]
    /\ FramesDeintWrite = 0 /\ FramesDeintRead = 0 /\ FramesDeintFilled = 0
    /\ Closing = 0 /\ Deint_Close = 0 /\ TrickSpeed = 0 /\ FilterInit = 0
    /\ SWDeinterlacer \in {0, 1}
    /\ VideoAudioDelay = 0
    /\ StartCounter = 0 /\ FramesDuped = 0 /\ FramesDropped = 0
    /\ bufs = [i \in 0 .. (PoolSize - 1) |-> NoBuf]
    /\ prime_buffers = 0 /\ front_buf = 0 /\ act_fb_id = 0 /\ act_buf = NOBUF
    /\ second_field = 0 /\ lastframe = NULL
    /\ planeFb = BlackFb /\ pendingFb = 0
    /\ epc = "start" /\ eframe = NULL /\ ebuf = NOBUF /\ esetbuf = FALSE
    /\ ipc = "poll" /\ iframe = NULL
    /\ fpc = "none" /\ fframe = NULL /\ thread_close = 0 /\ filt_frame = NULL
    /\ tails = 0 /\ filtQ = <<>> /\ filtEof = FALSE
    /\ frames = [i \in ObjIds |-> NoFrame]
    /\ nframes = 0
    /\ queued1 = <<>> /\ queued2 = <<>> /\ fifo1_ok = TRUE /\ fifo2_ok = TRUE
    /\ planeFrame = NULL /\ pendingFrame = NULL
    /\ nclose = 0 /\ ntrick = 0 /\ doomed = {}
    /\ polled = NoPoll
    /\ teardown = NoTeardown

\* the stream at its start, on a device that is set up, with the threads of
\* the stream taken as they are modelled here
Init ==
    RenderInit /\ dev = NotExamined /\ life = NotExamined /\ ogl = NotExamined /\ FnIdle

\* ------------------------------------------------------- ring history
\* a read of frame f from a ring whose unread frames are q is in order
InOrder(q, f) == q # <<>> /\ Head(q) = f
Rest(q) == IF q # <<>> THEN Tail(q) ELSE q

\* ------------------------------------------------ display handler thread
\* DrmDisplayHandlerThread -> VideoDecodeInput -> VideoRenderFrame, up to the
\* ring the frame goes to: with room in both rings the decoder is run and
\* hands its next frame to VideoRenderFrame.  A frame arriving while Closing
\* is set is freed; an interlaced frame with the software deinterlacer on
\* goes to ring 1 (starting the filter thread on first use), every other
\* frame to ring 2.
RenderFrame ==
    /\ ipc = "poll"
    /\ UNCHANGED sideVars
    /\ polled' = NoPoll
    /\ UNCHANGED teardown
    /\ MayDecode(FramesDeintFilled, FramesFilled)
    /\ nframes < MaxFrames
    /\ nframes' = nframes + 1
    /\ \E k \in Kinds, p \in PtsSet :
         LET id == nframes + 1
             made == [frames EXCEPT ![id] =
                        [st |-> "live", pts |-> p, il |-> k.il, fd |-> k.fd, shown |-> 0]]
         IN IF Closing # 0
            THEN /\ frames' = AvFrameFree(made, id)
                 /\ UNCHANGED <<ingVars, FilterInit, filVars>>
            ELSE /\ frames' = made
                 /\ iframe' = id
                 /\ IF ViaFilter(k.il, SWDeinterlacer)
                    THEN IF FilterInit = 0
                         THEN \* VideoFilterInit, pthread_create
                              /\ FilterInit' = 1
                              /\ filtQ' = <<>> /\ filtEof' = FALSE
                              /\ tails' = IF fpc = "tail" THEN tails + 1 ELSE tails
                              /\ fpc' = "wait"
                              /\ fframe' = NULL /\ thread_close' = 0 /\ filt_frame' = NULL
                              /\ ipc' = "setzero"
                         ELSE /\ ipc' = "push1"
                              /\ UNCHANGED <<FilterInit, filVars>>
                    ELSE /\ ipc' = "push2"
                         /\ UNCHANGED <<FilterInit, filVars>>
    /\ UNCHANGED <<ringVars, Closing, Deint_Close, TrickSpeed, SWDeinterlacer,
                   VideoAudioDelay, statVars, bufVars, hwVars, engVars, logVars, ctlVars>>

\* VideoRenderFrame: atomic_set(&render->FramesFilled, 0) after pthread_create
ResetFilled ==
    /\ ipc = "setzero"
    /\ UNCHANGED sideVars
    /\ polled' = NoPoll
    /\ UNCHANGED teardown
    /\ FramesFilled' = 0
    /\ ipc' = "push1"
    /\ UNCHANGED <<FramesRb, FramesWrite, FramesRead, ring2Vars, flagVars, statVars,
                   bufVars, hwVars, engVars, iframe, filVars, objVars, logVars, ctlVars>>

\* VideoRenderFrame: push into ring 1 under VideoDeintMutex
PushRing1 ==
    /\ ipc = "push1"
    /\ UNCHANGED sideVars
    /\ polled' = NoPoll
    /\ UNCHANGED teardown
    /\ FramesRb' = [FramesRb EXCEPT ![FramesWrite] = iframe]
    /\ FramesWrite' = NextIdx(FramesWrite)
    /\ FramesFilled' = FramesFilled + 1
    /\ queued1' = Append(queued1, iframe)
    /\ iframe' = NULL
    /\ ipc' = "poll"
    /\ UNCHANGED <<FramesRead, ring2Vars, flagVars, statVars, bufVars, hwVars, engVars,
                   filVars, objVars, queued2, fifo1_ok, fifo2_ok, planeFrame,
                   pendingFrame, ctlVars>>

\* VideoRenderFrame: push into ring 2 under VideoLockMutex
PushRing2 ==
    /\ ipc = "push2"
    /\ UNCHANGED sideVars
    /\ polled' = NoPoll
    /\ UNCHANGED teardown
    /\ SurfacesRb' = [SurfacesRb EXCEPT ![FramesDeintWrite] = iframe]
    /\ FramesDeintWrite' = NextIdx(FramesDeintWrite)
    /\ FramesDeintFilled' = FramesDeintFilled + 1
    /\ queued2' = Append(queued2, iframe)
    /\ iframe' = NULL
    /\ ipc' = "poll"
    /\ UNCHANGED <<ring1Vars, FramesDeintRead, flagVars, statVars, bufVars, hwVars,
                   engVars, filVars, objVars, queued1, fifo1_ok, fifo2_ok, planeFrame,
                   pendingFrame, ctlVars>>

\* ------------------------------------------------------- filter thread
\* frames the bwdif graph queues for one input frame: FilterFieldRate frames
\* in twice the input time base, one field period apart
FilterOutputs(k) == [f \in 1 .. FilterFieldRate |-> OutId(k, f)]
FilterPts(p, f) == 2 * p + (f - 1) * 2 * FieldTicks
FreeAll(fr, ids) == [i \in ObjIds |-> IF i \in ids THEN AvFrameFree(fr, i)[i] ELSE fr[i]]
Range(q) == {q[i] : i \in 1 .. Len(q)}

\* VideoFilterThread: while (FramesFilled == 0 && !Deint_Close) usleep
FilterWait ==
    /\ fpc = "wait"
    /\ UNCHANGED sideVars
    /\ polled' = NoPoll
    /\ UNCHANGED teardown
    /\ FramesFilled # 0 \/ Deint_Close # 0
    /\ fpc' = "getin"
    /\ UNCHANGED <<ringVars, flagVars, statVars, bufVars, hwVars, engVars, ingVars,
                   fframe, thread_close, filt_frame, tails, filtQ, filtEof, objVars,
                   logVars, ctlVars>>

\* getinframe: the test of FramesFilled, before the mutex is taken
FilterGetIn ==
    /\ fpc = "getin"
    /\ UNCHANGED sideVars
    /\ polled' = NoPoll
    /\ UNCHANGED teardown
    /\ IF FramesFilled # 0
       THEN fpc' = "pop" /\ UNCHANGED fframe
       ELSE fpc' = "closechk" /\ fframe' = NULL
    /\ UNCHANGED <<ringVars, flagVars, statVars, bufVars, hwVars, engVars, ingVars,
                   thread_close, filt_frame, tails, filtQ, filtEof, objVars,
                   logVars, ctlVars>>

\* getinframe: pop from ring 1 under VideoDeintMutex
FilterPop ==
    /\ fpc = "pop"
    /\ UNCHANGED sideVars
    /\ polled' = NoPoll
    /\ UNCHANGED teardown
    /\ FramesFilled > 0 - MaxUnder
    /\ fframe' = FramesRb[FramesRead]
    /\ FramesRead' = NextIdx(FramesRead)
    /\ FramesFilled' = FramesFilled - 1
    /\ fifo1_ok' = (fifo1_ok /\ InOrder(queued1, FramesRb[FramesRead]))
    /\ queued1' = Rest(queued1)
    /\ fpc' = "closechk"
    /\ UNCHANGED <<FramesRb, FramesWrite, ring2Vars, flagVars, statVars, bufVars, hwVars,
                   engVars, ingVars, thread_close, filt_frame, tails, filtQ, filtEof,
                   objVars, queued2, fifo2_ok, planeFrame, pendingFrame, ctlVars>>

\* if (render->Deint_Close): free the frame and drain ring 1
FilterCloseCheck ==
    /\ fpc = "closechk"
    /\ UNCHANGED sideVars
    /\ polled' = NoPoll
    /\ UNCHANGED teardown
    /\ IF Deint_Close # 0
       THEN /\ thread_close' = 1
            /\ frames' = AvFrameFree(frames, fframe)
            /\ fframe' = NULL
            /\ fpc' = IF FramesFilled # 0 THEN "getin" ELSE "submit"
       ELSE /\ fpc' = "submit"
            /\ UNCHANGED <<thread_close, frames, fframe>>
    /\ UNCHANGED <<ringVars, flagVars, statVars, bufVars, hwVars, engVars, ingVars,
                   filt_frame, tails, filtQ, filtEof, nframes, logVars, ctlVars>>

\* av_buffersrc_add_frame_flags(.., frame, KEEP_REF): on success the graph
\* holds its own reference and the caller's is freed; a NULL frame is EOF.
\* On failure the frame is left alone.
FilterSubmit ==
    /\ fpc = "submit"
    /\ UNCHANGED sideVars
    /\ polled' = NoPoll
    /\ UNCHANGED teardown
    /\ \E ok \in BOOLEAN :
         IF ok /\ ~filtEof
         THEN /\ IF fframe = NULL
                 THEN /\ filtEof' = TRUE
                      /\ UNCHANGED <<filtQ, frames>>
                 ELSE /\ filtEof' = filtEof
                      /\ LET new == fframe \in InIds
                                    /\ frames[fframe].st = "live"
                                    /\ \A f \in 1 .. FilterFieldRate :
                                          frames[OutId(fframe, f)].st = "none"
                             outs == IF new THEN FilterOutputs(fframe) ELSE <<>>
                             made == [i \in ObjIds |->
                                        IF \E f \in 1 .. Len(outs) : outs[f] = i
                                        THEN [st |-> "live",
                                              pts |-> FilterPts(frames[fframe].pts,
                                                                i - OutId(fframe, 0)),
                                              il |-> 0, fd |-> 0, shown |-> 0]
                                        ELSE frames[i]]
                         IN /\ filtQ' = filtQ \o outs
                            /\ frames' = AvFrameFree(made, fframe)
              /\ fframe' = NULL
         ELSE UNCHANGED <<filtQ, filtEof, frames, fframe>>
    /\ fpc' = "getout"
    /\ UNCHANGED <<ringVars, flagVars, statVars, bufVars, hwVars, engVars, ingVars,
                   thread_close, filt_frame, tails, nframes, logVars, ctlVars>>

\* av_buffersink_get_frame: EAGAIN ends the inner loop, EOF ends the thread,
\* a frame is discarded when thread_close is set and halved in pts otherwise
FilterGetOut ==
    /\ fpc = "getout"
    /\ UNCHANGED sideVars
    /\ polled' = NoPoll
    /\ UNCHANGED teardown
    /\ IF filtQ # <<>>
       THEN /\ filtQ' = Tail(filtQ)
            /\ filt_frame' = Head(filtQ)
            /\ IF thread_close # 0
               THEN fpc' = "getout" /\ UNCHANGED frames
               ELSE /\ fpc' = "fill"
                    /\ frames' = [frames EXCEPT ![Head(filtQ)].pts = HalfPts(@)]
       ELSE /\ fpc' = IF filtEof THEN "closing" ELSE "wait"
            /\ UNCHANGED <<filtQ, filt_frame, frames>>
    /\ UNCHANGED <<ringVars, flagVars, statVars, bufVars, hwVars, engVars, ingVars,
                   fframe, thread_close, tails, filtEof, nframes, logVars, ctlVars>>

\* fillframe: the test of Deint_Close and of the room in ring 2
FilterFill ==
    /\ fpc = "fill"
    /\ UNCHANGED sideVars
    /\ polled' = NoPoll
    /\ UNCHANGED teardown
    /\ IF Deint_Close # 0
       THEN /\ frames' = AvFrameFree(frames, filt_frame)
            /\ filt_frame' = NULL
            /\ fpc' = "wait"
       ELSE /\ MayFill(FramesDeintFilled)
            /\ fpc' = "fillpush"
            /\ UNCHANGED <<frames, filt_frame>>
    /\ UNCHANGED <<ringVars, flagVars, statVars, bufVars, hwVars, engVars, ingVars,
                   fframe, thread_close, tails, filtQ, filtEof, nframes, logVars, ctlVars>>

\* fillframe: push into ring 2 under VideoLockMutex
FilterPush ==
    /\ fpc = "fillpush"
    /\ UNCHANGED sideVars
    /\ polled' = NoPoll
    /\ UNCHANGED teardown
    /\ SurfacesRb' = [SurfacesRb EXCEPT ![FramesDeintWrite] = filt_frame]
    /\ FramesDeintWrite' = NextIdx(FramesDeintWrite)
    /\ FramesDeintFilled' = FramesDeintFilled + 1
    /\ queued2' = Append(queued2, filt_frame)
    /\ filt_frame' = NULL
    /\ fpc' = "getout"
    /\ UNCHANGED <<ring1Vars, FramesDeintRead, flagVars, statVars, bufVars, hwVars,
                   engVars, ingVars, fframe, thread_close, tails, filtQ, filtEof,
                   objVars, queued1, fifo1_ok, fifo2_ok, planeFrame, pendingFrame,
                   ctlVars>>

\* closing: avfilter_graph_free; render->FilterInit = 0
FilterClosing ==
    /\ fpc = "closing"
    /\ UNCHANGED sideVars
    /\ polled' = NoPoll
    /\ UNCHANGED teardown
    /\ frames' = FreeAll(frames, Range(filtQ))
    /\ filtQ' = <<>>
    /\ FilterInit' = 0
    /\ fpc' = "tail"
    /\ UNCHANGED <<ringVars, Closing, Deint_Close, TrickSpeed, SWDeinterlacer,
                   VideoAudioDelay, statVars, bufVars, hwVars, engVars, ingVars,
                   fframe, thread_close, filt_frame, tails, filtEof, nframes,
                   logVars, ctlVars>>

\* closing: render->Deint_Close = 0; return.  The last statement of a thread
\* whose successor VideoRenderFrame has already started is counted in tails.
FilterExit ==
    /\ UNCHANGED sideVars
    /\ polled' = NoPoll
    /\ UNCHANGED teardown
    /\ \/ /\ fpc = "tail"
          /\ fpc' = "none"
          /\ UNCHANGED tails
       \/ /\ tails > 0
          /\ tails' = tails - 1
          /\ UNCHANGED fpc
    /\ Deint_Close' = 0
    /\ UNCHANGED <<ringVars, Closing, TrickSpeed, FilterInit, SWDeinterlacer,
                   VideoAudioDelay, statVars, bufVars, hwVars, engVars, ingVars,
                   fframe, thread_close, filt_frame, filtQ, filtEof, objVars,
                   logVars, ctlVars>>


\* --------------------------------------------------- presentation thread
\* audio clock values AudioGetClock may report while the frame in hand has
\* the timestamp pts: those at the offsets DiffSet from it
ClockSet(pts) == {pts - d : d \in DiffSet}

\* index of the pool entry imported for PRIME fd, or NOBUF
FindPrime(fd) ==
    LET hit == {i \in 0 .. (PoolSize - 1) : i < prime_buffers /\ bufs[i].fd_prime = fd}
    IN IF hit = {} THEN NOBUF ELSE CHOOSE i \in hit : \A j \in hit : i <= j

\* a closing path that takes the black buffer for active whatever is recorded
BlackIsActiveAlways(fb) == TRUE

\* closing: render->buf_black.fb_id == render->act_fb_id
BlackIsActive(fb) == BlackFb = fb

\* a handler that frees the frame of the buffer just flipped in
SupersededNow(last, current) == current

\* the frame the completion handler frees: the one bound before this flip
Superseded(last, current) == last

\* DrmDisplayFrame: wait for the first frames, then call DrmFrame2Drm
DisplayStart ==
    /\ epc = "start"
    /\ UNCHANGED sideVars
    /\ polled' = NoPoll
    /\ UNCHANGED teardown
    /\ FramesDeintFilled >= StartFill
    /\ epc' = "dequeue"
    /\ UNCHANGED <<ringVars, flagVars, statVars, bufVars, hwVars, eframe, ebuf, esetbuf, ingVars,
                   filVars, objVars, logVars, ctlVars>>

\* DrmFrame2Drm dequeue: with a frame queued read the head slot and test
\* Closing; with ring 2 empty and Closing set either leave the loop (buffers
\* still allocated) or reset Closing
Dequeue ==
    /\ epc = "dequeue"
    /\ UNCHANGED sideVars
    /\ polled' = NoPoll
    /\ IF FramesDeintFilled # 0
       THEN /\ eframe' = SurfacesRb[FramesDeintRead]
            /\ esetbuf' = FALSE
            /\ epc' = IF Closing # 0 THEN "closing" ELSE "acquire"
            /\ UNCHANGED Closing
       ELSE /\ Closing # 0
            /\ IF prime_buffers # 0
               THEN epc' = "getframe" /\ UNCHANGED Closing
               ELSE Closing' = 0 /\ UNCHANGED epc
            /\ UNCHANGED <<eframe, esetbuf>>
    /\ UNCHANGED <<ringVars, Deint_Close, TrickSpeed, FilterInit, SWDeinterlacer,
                   VideoAudioDelay, statVars, bufVars, hwVars, ebuf, ingVars, filVars,
                   objVars, logVars, ctlVars>>
    /\ teardown' = TeardownAfter(teardown, Closing', planeFb)

\* after the loop was left with ring 2 empty: second read of FramesDeintFilled
\* and of Closing; a NULL frame that is not taken by the closing path is
\* dereferenced
GetFrame ==
    /\ epc = "getframe"
    /\ UNCHANGED sideVars
    /\ polled' = NoPoll
    /\ UNCHANGED teardown
    /\ eframe' = IF FramesDeintFilled # 0 THEN SurfacesRb[FramesDeintRead] ELSE NULL
    /\ esetbuf' = FALSE
    /\ epc' = IF Closing # 0 THEN "closing"
              ELSE IF FramesDeintFilled # 0 THEN "acquire" ELSE "segv"
    /\ UNCHANGED <<ringVars, flagVars, statVars, bufVars, hwVars, ebuf, ingVars, filVars,
                   objVars, logVars, ctlVars>>

\* closing: put the black buffer on the plane (DrmSetBuf) and flip to it (a
\* rejected flip commit is only logged), or, when it is already the active
\* framebuffer, enter DrmCleanDrm, which first frees lastframe
ClosingStep ==
    /\ epc = "closing"
    /\ UNCHANGED sideVars
    /\ polled' = NoPoll
    /\ IF ~BlackIsActive(act_fb_id)
       THEN /\ planeFb' = BlackFb /\ planeFrame' = NULL
            /\ \E ok \in BOOLEAN : pendingFb' = Flip(BlackFb, ok)
            /\ pendingFrame' = NULL
            /\ act_fb_id' = BlackFb
            /\ act_buf' = BLACK
            /\ ebuf' = BLACK
            /\ front_buf' = 1 - front_buf
            /\ epc' = "waitevent"
            /\ UNCHANGED <<lastframe, frames>>
       ELSE /\ frames' = AvFrameFree(frames, lastframe)
            /\ lastframe' = NULL
            /\ epc' = "clean"
            /\ UNCHANGED <<planeFb, pendingFb, planeFrame, pendingFrame, act_fb_id,
                           act_buf, ebuf, front_buf>>
    /\ UNCHANGED <<ringVars, flagVars, statVars, bufs, prime_buffers, second_field,
                   eframe, esetbuf, ingVars, filVars, nframes, queued1, queued2, fifo1_ok,
                   fifo2_ok, ctlVars>>
    /\ teardown' = TeardownAfter(teardown, Closing, planeFb')


\* DrmCleanDrm dequeue: free the frame in hand; with none in hand look at
\* ring 2, and once it is empty destroy the buffers and reset Closing
CleanFree ==
    /\ epc = "clean"
    /\ UNCHANGED sideVars
    /\ polled' = NoPoll
    /\ IF eframe # NULL
       THEN /\ frames' = AvFrameFree(frames, eframe)
            /\ epc' = "cleanpop"
            /\ UNCHANGED <<eframe, bufs, prime_buffers, front_buf, Closing>>
       ELSE IF FramesDeintFilled # 0
       THEN /\ eframe' = SurfacesRb[FramesDeintRead]
            /\ UNCHANGED <<epc, frames, bufs, prime_buffers, front_buf, Closing>>
       ELSE /\ bufs' = [i \in 0 .. (PoolSize - 1) |->
                          IF i < prime_buffers
                          THEN [bufs[i] EXCEPT !.fb_id = 0, !.fd_prime = 0,
                                               !.mapped = FALSE]
                          ELSE bufs[i]]
            /\ prime_buffers' = 0
            /\ front_buf' = IF prime_buffers # 0 THEN 0 ELSE front_buf
            /\ Closing' = 0
            /\ epc' = "dequeue"
            /\ UNCHANGED <<eframe, frames>>
    /\ UNCHANGED <<ringVars, Deint_Close, TrickSpeed, FilterInit, SWDeinterlacer,
                   VideoAudioDelay, statVars, act_fb_id, act_buf, second_field, lastframe,
                   hwVars, ebuf, esetbuf, ingVars, filVars, nframes, logVars, ctlVars>>
    /\ teardown' = TeardownAfter(teardown, Closing', planeFb)


\* DrmCleanDrm: after the free, advance the read cursor under VideoLockMutex
CleanPop ==
    /\ epc = "cleanpop"
    /\ UNCHANGED sideVars
    /\ polled' = NoPoll
    /\ UNCHANGED teardown
    /\ fifo2_ok' = (fifo2_ok /\ InOrder(queued2, SurfacesRb[FramesDeintRead]))
    /\ queued2' = Rest(queued2)
    /\ FramesDeintRead' = NextIdx(FramesDeintRead)
    /\ FramesDeintFilled' = FramesDeintFilled - 1
    /\ eframe' = NULL
    /\ epc' = "clean"
    /\ UNCHANGED <<ring1Vars, SurfacesRb, FramesDeintWrite, flagVars, statVars, bufVars,
                   hwVars, ebuf, esetbuf, ingVars, filVars, objVars, queued1, fifo1_ok,
                   planeFrame, pendingFrame, ctlVars>>

\* outcomes of DrmSetupFB for a new descriptor: done; no framebuffer
\* registered (import, dumb buffer creation or drmModeAddFB2 failed); for a
\* software frame also framebuffer registered but mapping failed
SetupOutcomes(fresh, fd) ==
    IF ~fresh THEN {"ok"}
    ELSE IF fd # 0 THEN {"ok", "nofb"}
    ELSE {"ok", "nofb", "nomap"}

\* DrmFrame2Drm, buffer acquisition: a PRIME frame looks its fd up in the
\* pool and imports it on a miss (only when no buffer is in hand yet); a
\* software frame takes bufs[front_buf], allocating it on first use, and is
\* copied into it field by field.  A failure of DrmSetupFB is only logged.
\* The first buffer allocated after a clean is put on the plane at once
\* (DrmSetBuf).  The descriptor after the last one of the pool is buf_osd.
Acquire ==
    /\ epc = "acquire"
    /\ UNCHANGED sideVars
    /\ polled' = NoPoll
    /\ UNCHANGED teardown
    /\ LET f == frames[eframe]
           hit == FindPrime(f.fd)
           slot == IF f.fd # 0
                   THEN (IF hit # NOBUF THEN hit
                         ELSE IF ebuf = NOBUF THEN prime_buffers ELSE ebuf)
                   ELSE front_buf
           fresh == IF f.fd # 0 THEN hit = NOBUF /\ ebuf = NOBUF
                    ELSE bufs[front_buf].fb_id = 0
       IN IF slot \notin 0 .. (PoolSize - 1)
          THEN \* &render->bufs[36]: the descriptor written is outside the pool
               /\ epc' = "overrun"
               /\ ebuf' = slot
               /\ prime_buffers' = prime_buffers + 1
               /\ UNCHANGED <<bufs, esetbuf, act_fb_id, planeFb, planeFrame,
                              second_field, frames>>
          ELSE \E setup \in SetupOutcomes(fresh, f.fd) :
               LET fb == IF setup = "nofb" THEN 0 ELSE PoolFb(slot)
                   made == IF fresh
                           THEN [bufs EXCEPT ![slot] =
                                   [fb_id |-> fb,
                                    fd_prime |-> IF f.fd # 0 THEN f.fd ELSE @.fd_prime,
                                    frame |-> @.frame,
                                    mapped |-> IF f.fd # 0 THEN @.mapped
                                               ELSE setup = "ok"]]
                           ELSE bufs
               IN /\ bufs' = made
                  /\ ebuf' = slot
                  /\ esetbuf' = (esetbuf \/ (fresh /\ prime_buffers = 0))
                  /\ prime_buffers' = IF fresh THEN prime_buffers + 1 ELSE prime_buffers
                  /\ IF fresh /\ prime_buffers = 0
                     THEN /\ act_fb_id' = fb
                          /\ IF fb # 0
                             THEN planeFb' = fb /\ planeFrame' = NULL
                             ELSE UNCHANGED <<planeFb, planeFrame>>
                     ELSE UNCHANGED <<act_fb_id, planeFb, planeFrame>>
                  /\ IF f.fd = 0 /\ ~made[slot].mapped
                     THEN \* memcpy into a buffer that was never mapped
                          /\ epc' = "segv"
                          /\ UNCHANGED <<second_field, frames>>
                     ELSE /\ epc' = "audioclock"
                          /\ IF f.fd = 0 /\ f.il = 1
                             THEN /\ second_field' = 1 - second_field
                                  /\ frames' = IF second_field = 1
                                               THEN [frames EXCEPT ![eframe].pts = @ + FieldTicks]
                                               ELSE frames
                             ELSE UNCHANGED <<second_field, frames>>
    /\ UNCHANGED <<ringVars, flagVars, statVars, front_buf, act_buf, lastframe, pendingFb,
                   pendingFrame, eframe, ingVars, filVars, nframes, queued1, queued2,
                   fifo1_ok, fifo2_ok, ctlVars>>

\* DrmFrame2Drm from audioclock to page_flip: poll the audio clock, apply
\* the sync policy, and either re-poll (clock missing, frame early), go to
\* a thread that never takes the audio clock for missing
ClockMissingNever(clock, trick) == FALSE

\* audioclock: audio_clock == AV_NOPTS_VALUE && !render->TrickSpeed
ClockMissing(clock, trick) == clock = AV_NOPTS_VALUE /\ trick = 0

\* closing, start dropping the frame, or bind the frame to the buffer, take
\* it off ring 2 and commit the flip (a rejected commit is only logged)
AudioClock ==
    /\ epc = "audioclock"
    /\ UNCHANGED sideVars
    /\ \E clock \in ClockSet(frames[eframe].pts) \cup {AV_NOPTS_VALUE}, ok \in BOOLEAN :
         LET f == frames[eframe]
             diff == SyncDiff(f.pts, clock, VideoAudioDelay)
             verdict == SyncVerdict(diff, TrickSpeed)
             take == Consumes(f.il, second_field)
         IN /\ polled' = [clock |-> clock, diff |-> diff, seen |-> TRUE]
            /\ IF ClockMissing(clock, TrickSpeed)
               THEN /\ epc' = IF Closing # 0 THEN "closing" ELSE "audioclock"
                    /\ UNCHANGED <<ring2Vars, statVars, bufVars, hwVars, frames, logVars,
                                   teardown>>
               ELSE IF clock # AV_NOPTS_VALUE /\ verdict = "dup"
               THEN /\ FramesDuped < MaxDup
                    /\ FramesDuped' = FramesDuped + 1
                    /\ epc' = IF Closing # 0 THEN "closing" ELSE "audioclock"
                    /\ UNCHANGED <<ring2Vars, StartCounter, FramesDropped, bufVars, hwVars,
                                   frames, logVars, teardown>>
               ELSE IF clock # AV_NOPTS_VALUE /\ verdict = "drop"
               THEN /\ FramesDropped' = FramesDropped + 1
                    /\ IF Closing # 0
                       THEN epc' = "closing" /\ UNCHANGED frames
                       ELSE epc' = "droppop" /\ frames' = AvFrameFree(frames, eframe)
                    /\ UNCHANGED <<ring2Vars, StartCounter, FramesDuped, bufVars, hwVars,
                                   logVars, teardown>>
               ELSE /\ bufs' = [bufs EXCEPT ![ebuf].frame = IF take THEN eframe ELSE NULL]
                    /\ IF take
                       THEN /\ FramesDeintRead' = NextIdx(FramesDeintRead)
                            /\ FramesDeintFilled' = FramesDeintFilled - 1
                            /\ fifo2_ok' = (fifo2_ok /\ InOrder(queued2, eframe))
                            /\ queued2' = Rest(queued2)
                       ELSE UNCHANGED <<FramesDeintRead, FramesDeintFilled, fifo2_ok,
                                        queued2>>
                    /\ StartCounter' = StartCounter + 1
                    /\ act_fb_id' = bufs[ebuf].fb_id
                    /\ act_buf' = ebuf
                    /\ pendingFb' = Flip(bufs[ebuf].fb_id, ok)
                    /\ IF pendingFb' # 0
                       THEN /\ frames' = [frames EXCEPT ![eframe].shown = @ + 1]
                            /\ pendingFrame' = IF take THEN eframe ELSE NULL
                            /\ teardown' = TeardownCommit(teardown)
                       ELSE /\ pendingFrame' = NULL
                            /\ UNCHANGED <<frames, teardown>>
                    /\ front_buf' = 1 - front_buf
                    /\ epc' = "waitevent"
                    /\ UNCHANGED <<SurfacesRb, FramesDeintWrite, FramesDuped, FramesDropped,
                                   prime_buffers, second_field, lastframe, planeFb,
                                   planeFrame, queued1, fifo1_ok>>
    /\ UNCHANGED <<ring1Vars, flagVars, eframe, ebuf, esetbuf, ingVars, filVars, nframes,
                   ctlVars>>

\* DrmFrame2Drm drop: after the free, advance the read cursor under
\* VideoLockMutex, count the frame and go back to dequeue
DropPop ==
    /\ epc = "droppop"
    /\ UNCHANGED sideVars
    /\ polled' = NoPoll
    /\ UNCHANGED teardown
    /\ fifo2_ok' = (fifo2_ok /\ InOrder(queued2, SurfacesRb[FramesDeintRead]))
    /\ queued2' = Rest(queued2)
    /\ FramesDeintRead' = NextIdx(FramesDeintRead)
    /\ FramesDeintFilled' = FramesDeintFilled - 1
    /\ StartCounter' = IF Closing = 0 THEN StartCounter + 1 ELSE StartCounter
    /\ epc' = "dequeue"
    /\ UNCHANGED <<ring1Vars, SurfacesRb, FramesDeintWrite, flagVars, FramesDuped,
                   FramesDropped, bufVars, hwVars, eframe, ebuf, esetbuf, ingVars, filVars,
                   objVars,
                   queued1, fifo1_ok, planeFrame, pendingFrame, ctlVars>>

\* DrmDisplayFrame: drmHandleEvent returns with the flip completed; the frame
\* of the superseded buffer is freed, the frame of the buffer now shown is
\* remembered, and DrmFrame2Drm is entered again
HandleEvent ==
    /\ epc = "waitevent"
    /\ UNCHANGED sideVars
    /\ polled' = NoPoll
    /\ UNCHANGED teardown
    /\ pendingFb # 0
    /\ planeFb' = pendingFb /\ planeFrame' = pendingFrame
    /\ pendingFb' = 0 /\ pendingFrame' = NULL
    /\ frames' = AvFrameFree(frames, Superseded(lastframe, BufFrame(act_buf)))
    /\ lastframe' = BufFrame(act_buf)
    /\ eframe' = NULL
    /\ ebuf' = NOBUF
    /\ esetbuf' = FALSE
    /\ epc' = "dequeue"
    /\ UNCHANGED <<ringVars, flagVars, statVars, bufs, prime_buffers, front_buf, act_fb_id,
                   act_buf, second_field, ingVars, filVars, nframes, queued1, queued2,
                   fifo1_ok, fifo2_ok, ctlVars>>

\* ------------------------------------------------------------ controller
\* VideoSetClosing(render, 1)
VideoSetClosing ==
    /\ nclose < MaxClose
    /\ UNCHANGED sideVars
    /\ polled' = NoPoll
    /\ nclose' = nclose + 1
    /\ Closing' = 1
    /\ teardown' = IF teardown = NoTeardown THEN 0 ELSE teardown
    /\ Deint_Close' = IF FilterInit # 0 THEN 1 ELSE Deint_Close
    /\ doomed' = IF prime_buffers # 0 THEN Range(queued2) ELSE {}
    /\ UNCHANGED <<ringVars, TrickSpeed, FilterInit, SWDeinterlacer, VideoAudioDelay,
                   statVars, bufVars, hwVars, engVars, ingVars, filVars, objVars, logVars,
                   ntrick>>

\* VideoSetTrickSpeed(render, speed); calls that change nothing are left out
VideoSetTrickSpeed ==
    /\ ntrick < MaxTrick
    /\ UNCHANGED sideVars
    /\ polled' = NoPoll
    /\ ntrick' = ntrick + 1
    /\ \E speed \in {0, 1} :
         /\ speed # TrickSpeed \/ (speed # 0 /\ Closing # 0)
         /\ TrickSpeed' = speed
         /\ Closing' = IF speed # 0 THEN 0 ELSE Closing
    /\ teardown' = TeardownAfter(teardown, Closing', planeFb)
    /\ UNCHANGED <<ringVars, Deint_Close, FilterInit, SWDeinterlacer, VideoAudioDelay,
                   statVars, bufVars, hwVars, engVars, ingVars, filVars, objVars, logVars,
                   nclose, doomed>>

\* ------------------------------------------------------------------ system
Next ==
    \/ RenderFrame \/ ResetFilled \/ PushRing1 \/ PushRing2
    \/ FilterWait \/ FilterGetIn \/ FilterPop \/ FilterCloseCheck \/ FilterSubmit
    \/ FilterGetOut \/ FilterFill \/ FilterPush \/ FilterClosing \/ FilterExit
    \/ DisplayStart \/ Dequeue \/ GetFrame \/ ClosingStep \/ CleanFree \/ CleanPop
    \/ Acquire \/ AudioClock \/ DropPop \/ HandleEvent
    \/ VideoSetClosing \/ VideoSetTrickSpeed

Spec == Init /\ [][Next]_vars

\* the presentation thread, the display handler thread and the filter thread
EngineNext ==
    \/ DisplayStart \/ Dequeue \/ GetFrame \/ ClosingStep \/ CleanFree \/ CleanPop
    \/ Acquire \/ AudioClock \/ DropPop \/ HandleEvent
IngestNext == RenderFrame \/ ResetFilled \/ PushRing1 \/ PushRing2
FilterNext ==
    \/ FilterWait \/ FilterGetIn \/ FilterPop \/ FilterCloseCheck \/ FilterSubmit
    \/ FilterGetOut \/ FilterFill \/ FilterPush \/ FilterClosing \/ FilterExit

\* every thread keeps being scheduled; the controller may stay silent
FairSpec ==
    Spec /\ WF_vars(EngineNext) /\ WF_vars(IngestNext) /\ WF_vars(FilterNext)

\* --------------------------------------------------- a long PRIME stream
\* fd of the i-th descriptor imported by the stream so far: all distinct, and
\* the fd 1 a later frame may carry is not among them
WarmFd(i) == i + 2

\* The state after a stream of PoolSize PRIME frames with distinct fds has
\* been presented without a close: every entry of the pool is in use, the
\* last frame (frame 1 here; its predecessors are freed and not followed any
\* further) is on the plane and ring 2 has drained.
WarmInit ==
    /\ FramesRb = [i \in 0 .. (VIDEO_SURFACES_MAX - 1) |-> NULL]
    /\ FramesWrite = 0 /\ FramesRead = 0 /\ FramesFilled = 0
    /\ SurfacesRb = [i \in 0 .. (VIDEO_SURFACES_MAX - 1) |->
                       IF i = (PoolSize - 1) % VIDEO_SURFACES_MAX THEN 1 ELSE NULL]
    /\ FramesDeintWrite = PoolSize % VIDEO_SURFACES_MAX
    /\ FramesDeintRead = PoolSize % VIDEO_SURFACES_MAX
    /\ FramesDeintFilled = 0
    /\ Closing = 0 /\ Deint_Close = 0 /\ TrickSpeed = 0 /\ FilterInit = 0
    /\ SWDeinterlacer \in {0, 1}
    /\ VideoAudioDelay = 0
    /\ StartCounter = PoolSize /\ FramesDuped = 0 /\ FramesDropped = 0
    /\ bufs = [i \in 0 .. (PoolSize - 1) |->
                 [fb_id |-> PoolFb(i), fd_prime |-> WarmFd(i),
                  frame |-> IF i = PoolSize - 1 THEN 1 ELSE NULL, mapped |-> FALSE]]
    /\ prime_buffers = PoolSize /\ front_buf = PoolSize % 2
    /\ act_fb_id = PoolFb(PoolSize - 1) /\ act_buf = PoolSize - 1
    /\ second_field = 0 /\ lastframe = 1
    /\ planeFb = PoolFb(PoolSize - 1) /\ pendingFb = 0
    /\ epc = "dequeue" /\ eframe = NULL /\ ebuf = NOBUF /\ esetbuf = FALSE
    /\ ipc = "poll" /\ iframe = NULL
    /\ fpc = "none" /\ fframe = NULL /\ thread_close = 0 /\ filt_frame = NULL
    /\ tails = 0 /\ filtQ = <<>> /\ filtEof = FALSE
    /\ frames = [i \in ObjIds |->
                   IF i = 1
                   THEN [st |-> "live", pts |-> 9000, il |-> 0,
                         fd |-> WarmFd(PoolSize - 1), shown |-> 1]
                   ELSE NoFrame]
    /\ nframes = 1
    /\ queued1 = <<>> /\ queued2 = <<>> /\ fifo1_ok = TRUE /\ fifo2_ok = TRUE
    /\ planeFrame = 1 /\ pendingFrame = NULL
    /\ nclose = 0 /\ ntrick = 0 /\ doomed = {}
    /\ polled = NoPoll
    /\ teardown = NoTeardown
    /\ dev = NotExamined /\ life = NotExamined /\ ogl = NotExamined /\ FnIdle

\* the threads and the controller from there on; DrmDisplayFrame is past its
\* start loop
WarmNext ==
    \/ RenderFrame \/ ResetFilled \/ PushRing1 \/ PushRing2
    \/ FilterWait \/ FilterGetIn \/ FilterPop \/ FilterCloseCheck \/ FilterSubmit
    \/ FilterGetOut \/ FilterFill \/ FilterPush \/ FilterClosing \/ FilterExit
    \/ Dequeue \/ GetFrame \/ ClosingStep \/ CleanFree \/ CleanPop
    \/ Acquire \/ AudioClock \/ DropPop \/ HandleEvent
    \/ VideoSetClosing \/ VideoSetTrickSpeed

WarmSpec == WarmInit /\ [][WarmNext]_vars

\* ------------------------------------------- initialisation and the OSD
\* DrmChangePlanes: one atomic commit sets zpos of the video plane, then of
\* the OSD plane (back: to the recorded values, else swapped)
DrmChangePlanes(z, back) ==
    LET zpos_video == IF back # 0 THEN dev.zpos_overlay ELSE dev.zpos_primary
        zpos_osd == IF back # 0 THEN dev.zpos_primary ELSE dev.zpos_overlay
    IN [[z EXCEPT ![dev.video_plane] = zpos_video] EXCEPT ![dev.osd_plane] = zpos_osd]

\* DrmSetPropertyRequest reads the property list of the object it is given
\* without testing it; for object id 0 there is none and the read goes
\* through a null pointer: the process faults, or the read yields no
\* property and the commit that follows is rejected
NullRead == {"fault", "ready"}
PlanesKnown == dev.video_plane # 0 /\ dev.osd_plane # 0

\* render->crtc_id is set together with the encoder
CrtcKnown == dev.find_ret = "ok" /\ dev.connector_id # 0

\* the objects the modeset commit of VideoInit names
InitObjectsKnown ==
    /\ CrtcKnown
    /\ IF dev.use_zpos # 0 THEN PlanesKnown ELSE dev.video_plane # 0

\* any device within the bounds, render just allocated (calloc), nothing
\* initialised, no OSD call made
DrmInit ==
    /\ RenderInit /\ life = NotExamined /\ ogl = NotExamined /\ FnIdle
    /\ \E c \in Cards : dev = DevNew(c)

\* VideoSetScreenSize: "hdr" switches the policy on, nothing switches it off
VideoSetScreenSize ==
    /\ dev.vpc = "new"
    /\ \E size \in {"hdr", "1920x1080"} :
         dev' = [dev EXCEPT !.hdr = IF size = "hdr" THEN 1 ELSE @]
    /\ UNCHANGED <<streamVars, life, ogl, fn>>

\* VideoInit, first statement: Drm_find_dev; a return value other than 0 is
\* logged and VideoInit goes on
DrmFindDev ==
    /\ dev.vpc = "new"
    /\ \E ub \in {"fault", "zero", "ones"} :
         LET r == FindDev(dev.card, dev.hdr, ub)
         IN dev' = [Found(dev, r) EXCEPT
                       !.vpc = IF r.ret \in {"hang", "fault"} THEN r.ret ELSE "setup"]
    /\ UNCHANGED <<streamVars, life, ogl, fn>>

\* VideoInit, the rest: the OSD buffer in the size of the mode (no buffer for
\* a mode of 0 x 0), the black buffer, the modeset commit (with use_zpos the
\* OSD buffer goes on the OSD plane at once; a commit without a mode is
\* rejected and logged); VideoInit returns void
VideoInit ==
    /\ dev.vpc = "setup"
    /\ \E next \in IF InitObjectsKnown THEN {"ready"} ELSE NullRead :
         dev' = [dev EXCEPT
                    !.buf_osd.mapped = dev.mode.hdisplay > 0 /\ dev.mode.vdisplay > 0,
                    !.osd_rect = IF dev.use_zpos # 0 /\ InitObjectsKnown /\ dev.mode # NoMode
                                 THEN [on |-> TRUE, x |-> 0, y |-> 0] ELSE NoRect,
                    !.vpc = next]
    /\ UNCHANGED <<streamVars, life, ogl, fn>>

\* on-screen coordinates of the images drawn
OsdXs == {0, 40}
OsdYs == {0, 30}

\* width and height of the images drawn; their pitch is width * 4
OsdImage == [width |-> 100, height |-> 50]

\* the copy loop of VideoOsdDrawARGB for an image at (x, y) with the origin
\* (ox, oy) in a buffer with rows of pitch0 bytes: offset of the first byte
\* written and offset after the last one
CopyLo(x, y, ox, oy, pitch0) == (x - ox) * 4 + (y - oy) * pitch0
CopyHi(x, y, ox, oy, pitch0) ==
    (x - ox) * 4 + (OsdImage.height - 1 + y - oy) * pitch0 + OsdImage.width * 4

\* VideoOsdDrawARGB: swap the planes, or show the OSD plane at the place of
\* the first image since the clear; then copy the image into the buffer (a
\* write through a null pointer when there is no buffer)
VideoOsdDrawARGB ==
    /\ dev.vpc = "ready"
    /\ \E x \in OsdXs, y \in OsdYs :
         LET moved == dev.use_zpos = 0 /\ dev.buf_osd.x = 0
             ox == IF moved THEN x ELSE dev.buf_osd.x
             oy == IF moved THEN y ELSE dev.buf_osd.y
             call == [op |-> "draw",
                      commit |-> dev.use_zpos = 0 /\ dev.buf_osd.x = 0,
                      first |-> dev.osd_call.op # "draw",
                      lo |-> CopyLo(x, y, ox, oy, 4 * dev.mode.hdisplay),
                      hi |-> CopyHi(x, y, ox, oy, 4 * dev.mode.hdisplay)]
             sound == IF dev.use_zpos # 0 THEN PlanesKnown /\ dev.buf_osd.mapped
                      ELSE dev.buf_osd.mapped
         IN \E next \in IF sound THEN {"ready"} ELSE NullRead :
              IF dev.use_zpos # 0
              THEN dev' = [dev EXCEPT
                              !.osd_call = call,
                              !.zpos = IF PlanesKnown THEN DrmChangePlanes(@, 0) ELSE @,
                              !.buf_osd.zero = ~dev.buf_osd.mapped,
                              !.vpc = next]
              ELSE IF dev.buf_osd.x = 0
              THEN dev' = [dev EXCEPT
                              !.osd_call = call,
                              !.osd_rect = IF dev.osd_plane # 0 /\ CrtcKnown /\ dev.buf_osd.mapped
                                           THEN [on |-> TRUE, x |-> x, y |-> y] ELSE @,
                              !.buf_osd = [@ EXCEPT !.x = x, !.y = y,
                                                    !.zero = ~dev.buf_osd.mapped],
                              !.vpc = next]
              ELSE dev' = [dev EXCEPT
                              !.osd_call = call,
                              !.buf_osd.zero = ~dev.buf_osd.mapped,
                              !.vpc = next]
    /\ UNCHANGED <<streamVars, life, ogl, fn>>

\* VideoOsdClear: planes back and the buffer zeroed, or the OSD plane off
VideoOsdClear ==
    /\ dev.vpc = "ready"
    /\ LET call == [op |-> "clear", commit |-> FALSE, first |-> FALSE, lo |-> 0, hi |-> 0]
       IN IF dev.use_zpos # 0
          THEN \E next \in IF PlanesKnown THEN {"ready"} ELSE NullRead :
                 dev' = [dev EXCEPT
                            !.osd_call = call,
                            !.zpos = IF PlanesKnown THEN DrmChangePlanes(@, 1) ELSE @,
                            !.buf_osd.zero = TRUE,
                            !.vpc = next]
          ELSE dev' = [dev EXCEPT
                          !.osd_call = call,
                          !.osd_rect = NoRect,
                          !.buf_osd.x = 0]
    /\ UNCHANGED <<streamVars, life, ogl, fn>>

DrmNext ==
    \/ VideoSetScreenSize \/ DrmFindDev \/ VideoInit
    \/ VideoOsdDrawARGB \/ VideoOsdClear

DrmSpec == DrmInit /\ [][DrmNext]_vars

\* ------------------------------------------------------------ properties
\* ring slots written and not yet read, by cursor and occupancy counter
LiveSlots(read, filled) ==
    {(read + k) % VIDEO_SURFACES_MAX : k \in 0 .. (filled - 1)}

\* places that still hold frame id
Held(id) ==
    \/ id \in {iframe, fframe, filt_frame, eframe, lastframe, planeFrame, pendingFrame}
    \/ id \in Range(queued1) \cup Range(queued2) \cup Range(filtQ)
    \/ \E b \in 0 .. (PoolSize - 1) : bufs[b].frame = id

\* the step polled the audio clock outside trick play and computed a diff
PolledDiff == polled'.seen /\ polled'.clock # AV_NOPTS_VALUE /\ TrickSpeed = 0
EarlyTicks == 55 * 90
LateTicks == 0 - 25 * 90

\* C1: for both rings the occupancy counter stays within
\* [0, VIDEO_SURFACES_MAX] under every interleaving of ingest, filter thread
\* and presentation thread.
C1_Occupancy ==
    /\ FramesFilled \in 0 .. VIDEO_SURFACES_MAX
    /\ FramesDeintFilled \in 0 .. VIDEO_SURFACES_MAX

\* C2: a frame handed to VideoRenderFrame is freed exactly once: it is never
\* freed twice, and while it is not freed some ring slot, thread or buffer
\* still holds it (it is not leaked).
C2_FreedOnce ==
    \A id \in InIds :
       /\ frames[id].st # "dfree"
       /\ frames[id].st = "live" => Held(id)

\* C3: in each ring the k-th frame popped is the k-th frame pushed.
C3_Fifo == fifo1_ok /\ fifo2_ok

\* C4: after VideoSetClosing was called with frames queued in ring 2 and a
\* buffer allocated, the presentation thread frees every one of those frames
\* without presenting it: while Closing is set no step commits one of them.
C4_DrainWithoutPresenting ==
    [][Closing # 0 => \A id \in doomed : frames'[id].shown = frames[id].shown]_vars

\* C5: when Closing is set while ring 2 is empty and no buffer is allocated,
\* including before any frame has arrived, the presentation thread eventually
\* resets Closing.
C5_ClosingReset ==
    (Closing # 0 /\ FramesDeintFilled = 0 /\ prime_buffers = 0) ~> (Closing = 0)

C7_LateDropped ==
    [][PolledDiff /\ polled'.diff < LateTicks =>
          /\ FramesDropped' = FramesDropped + 1
          /\ frames[eframe].st = "live" /\ frames'[eframe].st = "freed"
          /\ epc' = "droppop"
          /\ pendingFb' = pendingFb /\ planeFb' = planeFb
          /\ ~esetbuf]_vars

\* C8: outside trick play a poll with -25 ms <= diff <= +55 ms presents the
\* frame in hand, which is the oldest unread frame of ring 2: a page flip to
\* its buffer (for a PRIME frame the buffer imported from the frame's fd) is
\* committed, the frame stays allocated, and neither FramesDropped nor
\* FramesDuped changes.  Commits of a registered framebuffer that the kernel
\* rejects are left aside (C13).
C8_InWindowPresented ==
    [][PolledDiff /\ polled'.diff >= LateTicks /\ polled'.diff <= EarlyTicks
          /\ ~(pendingFb' = 0 /\ act_fb_id' # 0) =>
          /\ eframe = Head(queued2)
          /\ frames'[eframe].shown = frames[eframe].shown + 1
          /\ frames'[eframe].st = "live"
          /\ pendingFb = 0 /\ pendingFb' = bufs[ebuf].fb_id /\ pendingFb' # 0
          /\ frames[eframe].fd # 0 => bufs[ebuf].fd_prime = frames[eframe].fd
          /\ epc' = "waitevent"
          /\ StartCounter' = StartCounter + 1
          /\ FramesDropped' = FramesDropped
          /\ FramesDuped' = FramesDuped]_vars

C10_NoDanglingSlot ==
    /\ \A i \in LiveSlots(FramesRead, FramesFilled) :
          FramesRb[i] # NULL => frames[FramesRb[i]].st = "live"
    /\ \A i \in LiveSlots(FramesDeintRead, FramesDeintFilled) :
          SurfacesRb[i] # NULL => frames[SurfacesRb[i]].st = "live"
    /\ \A i, j \in LiveSlots(FramesRead, FramesFilled) :
          i # j => FramesRb[i] # FramesRb[j]
    /\ \A i, j \in LiveSlots(FramesDeintRead, FramesDeintFilled) :
          i # j => SurfacesRb[i] # SurfacesRb[j]

\* unread frames of a ring by its cursors: distance from read to write cursor
Distance(read, write) == (write - read) % VIDEO_SURFACES_MAX

\* C11: for each ring the occupancy counter equals the number of frames
\* written and not yet consumed, which is the distance from the read cursor
\* to the write cursor modulo VIDEO_SURFACES_MAX, also after the filter
\* thread was stopped and started again and the ring 1 counter was set to 0.
C11_CountIsDistance ==
    /\ FramesFilled = Len(queued1)
    /\ FramesFilled % VIDEO_SURFACES_MAX = Distance(FramesRead, FramesWrite)
    /\ FramesDeintFilled = Len(queued2)
    /\ FramesDeintFilled % VIDEO_SURFACES_MAX = Distance(FramesDeintRead, FramesDeintWrite)

\* the ring 2 half of C11
Ring2CountIsDistance ==
    /\ FramesDeintFilled = Len(queued2)
    /\ FramesDeintFilled % VIDEO_SURFACES_MAX = Distance(FramesDeintRead, FramesDeintWrite)

\* C12: once VideoSetClosing has set Closing, at most one frame, which the
\* presentation thread had already taken up, is still committed; no further
\* frame of ring 2 is committed before the black buffer is on the plane and
\* Closing is reset.
C12_OneLateFrame == teardown \in {NoTeardown, 0, 1}

\* the same with the controller not changing the trick speed
OneLateFrameNoTrick == ntrick = 0 => teardown \in {NoTeardown, 0, 1}

\* the kernel rejected the page flip commit for a frame's framebuffer: the
\* presentation thread is in drmHandleEvent and no flip is in flight
FrameFlipRejected ==
    /\ epc = "waitevent" /\ pendingFb = 0
    /\ act_buf \in 0 .. (PoolSize - 1) /\ act_fb_id # 0

\* C13: when the page flip commit for a frame is rejected the failure is only
\* logged and the pipeline does not stall: the presentation thread comes back
\* to dequeue, where frames queued afterwards are taken up.
C13_RejectedFlipGoesOn == FrameFlipRejected ~> (epc = "dequeue")

\* the part of C13 about the bookkeeping: the step whose commit is rejected
\* counts the frame (StartCounter) and takes it off ring 2 like an accepted one
RejectedFlipCounted ==
    [][epc = "audioclock" /\ FrameFlipRejected' =>
          /\ StartCounter' = StartCounter + 1
          /\ FramesDropped' = FramesDropped /\ FramesDuped' = FramesDuped
          /\ Consumes(frames[eframe].il, second_field) =>
                /\ FramesDeintFilled' = FramesDeintFilled - 1
                /\ bufs'[ebuf].frame = eframe]_vars

\* the step set up a new descriptor for the frame in hand and DrmSetupFB
\* failed: no framebuffer was registered, or a software frame's buffer was
\* not mapped
SetupFailed ==
    /\ epc = "acquire" /\ prime_buffers' = prime_buffers + 1
    /\ ebuf' \in 0 .. (PoolSize - 1)
    /\ \/ bufs'[ebuf'].fb_id = 0
       \/ frames[eframe].fd = 0 /\ ~bufs'[ebuf'].mapped

\* C14: when DrmSetupFB fails for a frame, the frame is dropped and counted
\* in FramesDropped, no pixels are copied, nothing is committed for it, and
\* the presentation thread goes on to the next frame.
C14_SetupFailureDrops ==
    [][SetupFailed =>
          /\ FramesDropped' = FramesDropped + 1
          /\ frames'[eframe].st = "freed"
          /\ epc' = "droppop"
          /\ planeFb' = planeFb /\ pendingFb' = pendingFb]_vars

\* C15: the number of buffer descriptors in use never exceeds PoolSize, and
\* the presentation thread never sets up a descriptor outside bufs, also for
\* a stream with more than PoolSize distinct PRIME fds and no close.
C15_PoolBounded == prime_buffers <= PoolSize /\ epc # "overrun"

\* the step is the buffer acquisition of DrmFrame2Drm
AcquireStep == epc = "acquire" /\ epc' # "acquire"

\* descriptors in use
InUse == {i \in 0 .. (PoolSize - 1) : i < prime_buffers}

\* C16: between two teardowns the pool holds at most one descriptor per
\* PRIME fd; a PRIME frame whose fd has a descriptor takes that descriptor and
\* imports nothing; a software frame is copied only into a descriptor that
\* was allocated and mapped for the software path (bufs[0] or bufs[1]).
\* Failures of DrmSetupFB are left aside (C14).
C16_OneDescriptorPerSource ==
    /\ [](\A i, j \in InUse :
             i # j /\ bufs[i].fd_prime # 0 => bufs[i].fd_prime # bufs[j].fd_prime)
    /\ [][AcquireStep /\ frames[eframe].fd # 0
          /\ FindPrime(frames[eframe].fd) # NOBUF =>
             /\ ebuf' = FindPrime(frames[eframe].fd)
             /\ prime_buffers' = prime_buffers /\ bufs' = bufs]_vars
    /\ [][AcquireStep /\ frames[eframe].fd = 0 /\ ~SetupFailed =>
             /\ ebuf' \in {0, 1}
             /\ bufs'[ebuf'].mapped /\ bufs'[ebuf'].fd_prime = 0
             /\ epc' = "audioclock"]_vars

\* the first two parts of C16
OneDescriptorPerFd ==
    /\ [](\A i, j \in InUse :
             i # j /\ bufs[i].fd_prime # 0 => bufs[i].fd_prime # bufs[j].fd_prime)
    /\ [][AcquireStep /\ frames[eframe].fd # 0
          /\ FindPrime(frames[eframe].fd) # NOBUF =>
             /\ ebuf' = FindPrime(frames[eframe].fd)
             /\ prime_buffers' = prime_buffers /\ bufs' = bufs]_vars

TrickPoll == epc = "audioclock" /\ polled'.seen /\ TrickSpeed # 0

\* the sync policy is suspended during trick play: a poll is followed by
\* the page flip of the buffer in hand whatever the clock says, with the
\* frame counted, bound to the buffer and taken off ring 2 when it is
\* complete; FramesDuped and FramesDropped do not move
SyncSuspended ==
    [][TrickPoll =>
          /\ FramesDuped' = FramesDuped /\ FramesDropped' = FramesDropped
          /\ epc' = "waitevent"
          /\ StartCounter' = StartCounter + 1
          /\ act_buf' = ebuf /\ act_fb_id' = bufs[ebuf].fb_id
          /\ pendingFb' \in {0, bufs[ebuf].fb_id}
          /\ frames'[eframe].st = "live"
          /\ Consumes(frames[eframe].il, second_field) =>
                /\ eframe = Head(queued2)
                /\ FramesDeintFilled' = FramesDeintFilled - 1
                /\ bufs'[ebuf].frame = eframe]_vars

\* C18: while TrickSpeed is non-zero the presentation thread never waits for
\* the audio clock, never increments FramesDuped or FramesDropped, and
\* presents every frame it has dequeued: the page flip commits the frame's
\* buffer (for a PRIME frame the one imported from its fd).  Commits that
\* the kernel rejects and failures of DrmSetupFB are left aside (C13, C14).
C18_TrickPlayPresents ==
    [][TrickPoll =>
          /\ FramesDuped' = FramesDuped /\ FramesDropped' = FramesDropped
          /\ epc' = "waitevent"
          /\ StartCounter' = StartCounter + 1
          /\ frames'[eframe].st = "live"
          /\ frames[eframe].fd # 0 => bufs[ebuf].fd_prime = frames[eframe].fd
          /\ bufs[ebuf].fb_id # 0 /\ pendingFb' # 0 =>
                /\ pendingFb' = bufs[ebuf].fb_id
                /\ frames'[eframe].shown = frames[eframe].shown + 1]_vars

\* the stricter reading: a poll that finds no clock while Closing is set finds
\* a framebuffer other than the black one active, so that the closing path
\* commits black anew.  It holds for one close and one change of trick speed;
\* after a close that VideoSetTrickSpeed cut short (C12) the black buffer is
\* still the active one and a second close goes straight to DrmCleanDrm.
BlackCommittedAfterWait ==
    [][epc = "audioclock" /\ polled'.seen /\ polled'.clock = AV_NOPTS_VALUE
          /\ TrickSpeed = 0 /\ Closing # 0 => ~BlackIsActive(act_fb_id)]_vars

\* the step polled the audio clock outside trick play and found none
NoClockPoll ==
    epc = "audioclock" /\ polled'.seen /\ polled'.clock = AV_NOPTS_VALUE /\ TrickSpeed = 0

\* what the presentation thread does with the frame in hand is left alone
HeadUntouched ==
    /\ FramesDeintRead' = FramesDeintRead /\ FramesDeintFilled' = FramesDeintFilled
    /\ frames' = frames /\ bufs' = bufs
    /\ planeFb' = planeFb /\ pendingFb' = pendingFb /\ act_fb_id' = act_fb_id
    /\ StartCounter' = StartCounter
    /\ FramesDuped' = FramesDuped /\ FramesDropped' = FramesDropped

Origin(id) == IF id \in InIds THEN id ELSE ((id - MaxFrames - 1) \div FilterFieldRate) + 1

\* a was handed in before b (outputs of one input in the filter's order)
HandedBefore(a, b) == Origin(a) < Origin(b) \/ (Origin(a) = Origin(b) /\ a < b)

\* C20: frames are committed to the display in the order in which they were
\* handed to VideoRenderFrame, whatever SWDeinterlacer is: when a frame is
\* committed for the first time, no frame handed in after it has been
\* committed before.
C20_CommitOrder ==
    [][\A id \in ObjIds :
          frames[id].shown = 0 /\ frames'[id].shown > 0 =>
             \A later \in ObjIds : HandedBefore(id, later) => frames[later].shown = 0]_vars

\* with the software deinterlacer off every frame takes the way through
\* ring 2 alone, and the commits keep the hand-in order
CommitOrderDirect ==
    [][SWDeinterlacer = 0 =>
          \A id \in ObjIds :
             frames[id].shown = 0 /\ frames'[id].shown > 0 =>
                \A later \in ObjIds : HandedBefore(id, later) => frames[later].shown = 0]_vars

\* the filter thread pushes filt_frame into ring 2
StagePush == fpc = "fillpush" /\ fpc' = "getout"

\* the frame is in ring 2 or has gone on from there to the presentation thread
Delivered(id) == id \in Range(queued2) \/ eframe = id \/ frames[id].shown > 0

\* the other frames the filter made from the input of frame id
Siblings(id) == {g \in ObjIds \ InIds : g # id /\ Origin(g) = Origin(id)}

\* C23: each interlaced frame popped from ring 1 by the filter thread while
\* it is not closing results in exactly one progressive frame pushed into
\* ring 2: when the thread pushes a frame, no other frame made from the same
\* input has been pushed.
C23_OneOutputPerInput ==
    [][StagePush => \A g \in Siblings(filt_frame) : ~Delivered(g)]_vars

\* the timestamp the filter graph gave to output frame id
FilterStamp(id) == FilterPts(frames[Origin(id)].pts, id - OutId(Origin(id), 0))

\* C24: every frame the filter thread pushes into ring 2 carries half
\* (integer division by 2) of the timestamp the filter produced for it, and
\* no filter output waiting in ring 2 carries another timestamp.
C24_PushedPtsHalved ==
    /\ [][StagePush => frames[filt_frame].pts = FilterStamp(filt_frame) \div 2]_vars
    /\ [](\A id \in Range(queued2) \ InIds : frames[id].pts = FilterStamp(id) \div 2)

\* a filter output with its halved timestamp has been presented
C24_Witness ==
    \E id \in ObjIds \ InIds :
       /\ frames[id].shown > 0
       /\ frames[id].pts = FilterStamp(id) \div 2
       /\ FilterStamp(id) # frames[id].pts

\* the presentation thread frees the frame in hand under the late-frame rule
LateFrameFreed ==
    /\ epc = "audioclock" /\ epc' = "droppop"
    /\ frames[eframe].st = "live" /\ frames'[eframe].st = "freed"

\* C29: with no VideoResetStart since the start, FramesDropped (the dropped
\* count of VideoGetStats) counts the frames freed under the late-frame rule
\* and FramesDuped the re-polls of an early frame: each counter moves by one,
\* FramesDropped exactly in the steps that free a late frame, FramesDuped
\* only in steps that go back to the audio clock; a cycle that goes to the
\* closing path without freeing the frame leaves FramesDropped alone.
C29_StatsCountEvents ==
    /\ [][FramesDropped' # FramesDropped =>
             FramesDropped' = FramesDropped + 1 /\ LateFrameFreed]_vars
    /\ [][LateFrameFreed => FramesDropped' = FramesDropped + 1]_vars
    /\ [][FramesDuped' # FramesDuped =>
             FramesDuped' = FramesDuped + 1 /\ epc' = "audioclock"]_vars

\* the counters follow the threshold tests alone
StatsCountVerdicts ==
    /\ [][FramesDropped' # FramesDropped =>
             FramesDropped' = FramesDropped + 1 /\ PolledDiff /\ polled'.diff < LateTicks]_vars
    /\ [][FramesDuped' # FramesDuped =>
             FramesDuped' = FramesDuped + 1 /\ PolledDiff /\ polled'.diff > EarlyTicks]_vars
    /\ [][LateFrameFreed => FramesDropped' = FramesDropped + 1]_vars

\* the page flip made by this step commits frame id once more
Commits(id) == frames'[id].shown = frames[id].shown + 1

\* the step takes the head frame off ring 2
HeadLeaves == queued2 # <<>> /\ queued2' = Tail(queued2)

\* C30: an interlaced frame of the CPU path is presented by two commits,
\* first field then second field: the first commit leaves it at the head of
\* ring 2 with its pts untouched, the second takes it off the ring with the
\* pts advanced by FieldTicks once, and there is no third; second_field is
\* 0 whenever the head of ring 2 is taken off, be it by a commit, a drop or
\* the closing drain, so that the next head starts with its first field.
C30_TwoFieldsPerFrame ==
    /\ [][\A id \in InIds :
             frames[id].il = 1 /\ frames[id].fd = 0 /\ Commits(id) =>
                IF frames[id].shown = 0
                THEN /\ second_field = 1
                     /\ frames[id].pts \in PtsSet
                     /\ queued2' = queued2 /\ Head(queued2) = id
                ELSE /\ frames[id].shown = 1
                     /\ second_field = 0
                     /\ frames[id].pts - FieldTicks \in PtsSet
                     /\ HeadLeaves /\ Head(queued2) = id]_vars
    /\ [][HeadLeaves => second_field' = 0]_vars

\* ------------------------------------------------- device initialisation
\* a connector that is connected and lists modes
Usable(c) == c.connection = "connected" /\ Len(c.modes) > 0
HasDisplay == \E i \in 1 .. Len(dev.card.connectors) : Usable(dev.card.connectors[i])

\* VideoInit has returned: the module takes OSD calls and frames
Initialised == dev.vpc = "ready"

\* C22: initialisation reports failure to its caller, and the stream does
\* not start, whenever no connector is connected with usable modes or a
\* video plane and an OSD plane cannot both be found: VideoInit returns
\* normally only with a display and both planes
C22_InitFailsWithoutDisplayOrPlanes ==
    Initialised => HasDisplay /\ dev.video_plane # 0 /\ dev.osd_plane # 0

\* Drm_find_dev has returned 0 with an encoder (and so a CRTC) selected
DevFound == dev.vpc \in {"setup", "ready"} /\ CrtcKnown

\* planes of the device that can show on the selected CRTC and advertise fmt
OnSelected(fmt) ==
    {j \in 1 .. Len(dev.card.planes) :
        /\ dev.card.planes[j].crtc = "selected"
        /\ \E k \in 1 .. Len(dev.card.planes[j].formats) : dev.card.planes[j].formats[k] = fmt}

\* the first of them in enumeration order (id 0: there is none)
FirstPlane(fmt) ==
    IF OnSelected(fmt) = {} THEN 0
    ELSE PlaneId(CHOOSE j \in OnSelected(fmt) : \A l \in OnSelected(fmt) : j <= l)

\* the index of a plane id in the enumeration
PlaneIndex(id) == id - PlaneId(0)

\* C27: among the planes compatible with the selected CRTC, in enumeration
\* order, the first NV12 plane is the video plane and the first ARGB8888
\* plane is the OSD plane; with a video plane that is not primary use_zpos
\* is set and the default zpos values of both planes are recorded
C27_FirstPlanesChosen ==
    DevFound =>
        /\ dev.video_plane = FirstPlane("NV12")
        /\ dev.osd_plane = FirstPlane("ARGB8888")
        /\ (dev.video_plane # 0 /\ dev.card.planes[PlaneIndex(dev.video_plane)].type # "primary") =>
              /\ dev.use_zpos = 1
              /\ dev.zpos_overlay = DefaultZpos[dev.video_plane]
              /\ dev.osd_plane # 0 => dev.zpos_primary = DefaultZpos[dev.osd_plane]

\* what the plane loop does establish: one plane gets both roles only when
\* NV12 comes first in its format list, and use_zpos and zpos_overlay follow
\* the type of the video plane
PlanesAsScanned ==
    DevFound =>
        /\ dev.video_plane # 0 => dev.video_plane # dev.osd_plane \/
              dev.card.planes[PlaneIndex(dev.video_plane)].formats[1] = "NV12"
        /\ (dev.video_plane # 0 /\ dev.card.planes[PlaneIndex(dev.video_plane)].type # "primary") =>
              dev.use_zpos = 1 /\ dev.zpos_overlay = DefaultZpos[dev.video_plane]
        /\ (dev.video_plane # 0 /\ dev.card.planes[PlaneIndex(dev.video_plane)].type = "primary") =>
              dev.use_zpos = 0

\* the connector with the given id (ids follow the enumeration)
ConnectorOf(id) == dev.card.connectors[id - ConnectorId(0)]

\* the mode of connector c the screen size policy asks for, NoMode if it
\* lists none
PolicyMode(c, cid) == ScanModes(c.modes, 1, cid, dev.hdr, NoMode)

\* C28: the selected mode is the connected connector's 1920x1080 at 50 Hz
\* non-interlaced mode with the HDR policy off and its 1280x720 at 50 Hz
\* non-interlaced mode with the policy on; a mode of a connector that is not
\* connected is never selected
C28_ModeOfConnectedConnector ==
    (dev.vpc \in {"setup", "ready"} /\ dev.find_ret = "ok") =>
        /\ dev.mode # NoMode =>
              /\ Wanted(dev.mode, dev.hdr)
              /\ ConnectorOf(dev.mode.connector).connection = "connected"
        /\ dev.connector_id # 0 => dev.mode = PolicyMode(ConnectorOf(dev.connector_id), dev.connector_id)

\* what the mode loop does establish: a mode that is selected is one the
\* policy asks for
ModeAsPolicy == dev.mode # NoMode => Wanted(dev.mode, dev.hdr)

\* ------------------------------------------------------------------ OSD
\* VideoInit has returned on a device with a CRTC, a mode, both planes and
\* the OSD buffer: no OSD call reads or writes through a null pointer
OsdReady == Initialised /\ CrtcKnown /\ PlanesKnown /\ dev.buf_osd.mapped

\* C26: without zpos swapping the commit that places and sizes the OSD plane
\* is issued on exactly the first VideoOsdDrawARGB after initialisation or
\* after a VideoOsdClear and on no later one until the next clear, whatever
\* the coordinates of the draws (on a device where the OSD has its plane and
\* its buffer)
C26_CommitOnFirstDrawOnly ==
    (OsdReady /\ dev.use_zpos = 0 /\ dev.osd_call.op = "draw") =>
        (dev.osd_call.commit <=> dev.osd_call.first)

\* what the draw does establish: the first draw after initialisation or a
\* clear commits, and a draw after one that left buf_osd.x other than 0
\* does not
CommitWhenXZero ==
    [][VideoOsdDrawARGB /\ dev.use_zpos = 0 => (dev'.osd_call.commit <=> dev.buf_osd.x = 0)]_vars
        /\ [](OsdReady /\ dev.use_zpos = 0 /\ dev.osd_call.op = "draw" /\ dev.osd_call.first
                => dev.osd_call.commit)

\* the OSD plane is stacked above the video plane
OsdAbove == dev.zpos[dev.osd_plane] > dev.zpos[dev.video_plane]

\* both planes have the zpos the driver gave them
ZposDefault ==
    dev.zpos[dev.video_plane] = DefaultZpos[dev.video_plane] /\ dev.zpos[dev.osd_plane] = DefaultZpos[dev.osd_plane]

\* the part of the state the OSD calls act on
OsdState == <<dev.zpos, dev.osd_rect, dev.buf_osd>>

\* C25: with use_zpos, after any sequence of VideoOsdDrawARGB and
\* VideoOsdClear the OSD plane is above the video plane exactly when the
\* last call was a draw; a clear restores the default zpos of both planes
\* and leaves the OSD buffer zeroed; either call made twice in a row gives
\* the state one call gives
C25_ZposFollowsLastCall ==
    /\ [](OsdReady /\ dev.use_zpos # 0 /\ dev.osd_call.op = "draw" => OsdAbove)
    /\ [](OsdReady /\ dev.use_zpos # 0 /\ dev.osd_call.op = "clear" =>
            ~OsdAbove /\ ZposDefault /\ dev.buf_osd.zero)
    /\ [][(OsdReady /\ dev.use_zpos # 0 /\ VideoOsdDrawARGB /\ dev.osd_call.op = "draw")
            => OsdState' = OsdState]_vars
    /\ [][(OsdReady /\ dev.use_zpos # 0 /\ VideoOsdClear /\ dev.osd_call.op = "clear")
            => OsdState' = OsdState]_vars

\* what the two calls do establish on a device with a primary OSD plane
\* below an overlay video plane
ZposSwapped ==
    /\ [](OsdReady /\ dev.use_zpos # 0 /\ dev.video_plane # dev.osd_plane
            /\ dev.card.planes[PlaneIndex(dev.osd_plane)].type = "primary"
            /\ DefaultZpos[dev.osd_plane] < DefaultZpos[dev.video_plane]
          => /\ dev.osd_call.op = "draw" => OsdAbove
             /\ dev.osd_call.op = "clear" => ~OsdAbove /\ ZposDefault /\ dev.buf_osd.zero)
    /\ [][(OsdReady /\ dev.use_zpos # 0 /\ dev.video_plane # dev.osd_plane
            /\ dev.card.planes[PlaneIndex(dev.osd_plane)].type = "primary"
            /\ ((VideoOsdDrawARGB /\ dev.osd_call.op = "draw")
                  \/ (VideoOsdClear /\ dev.osd_call.op = "clear")))
          => OsdState' = OsdState]_vars

\* ----------------------------------------------- threads and the context
\* pthread_create: the thread starts at the top of its loop
Started == [st |-> "run", cancel |-> FALSE, pos |-> "top"]

\* a thread uses the render context it was given; u: whether this step reads
\* or writes it
Uses(t, u) == IF u /\ life.render = "freed" THEN life.stale \cup {t} ELSE life.stale

\* VideoDisplayWakeup -> VideoThreadInit: the display handler thread and the
\* presentation thread are created with render as argument
VideoDisplayWakeup ==
    /\ life.xpc = "idle" /\ life.render = "live" /\ life.VideoThread = 0
    /\ life' = [life EXCEPT !.VideoThread = 1,
                            !.threads["video"] = Started,
                            !.threads["presentation"] = Started]
    /\ UNCHANGED <<streamVars, dev, ogl, fn>>

\* VideoRenderFrame, first interlaced frame with the software deinterlacer:
\* the filter thread is created with render as argument (frames are taken
\* to arrive once the display threads run)
FilterThreadCreate ==
    /\ life.xpc = "idle" /\ life.render = "live" /\ SWDeinterlacer # 0
    /\ life.VideoThread # 0
    /\ life.threads["deinterlacer"].st = "none"
    /\ life' = [life EXCEPT !.threads["deinterlacer"] = Started]
    /\ UNCHANGED <<streamVars, dev, ogl, fn>>

\* VideoDisplayHandlerThread: cancellation is enabled only around
\* pthread_testcancel at the top of the loop; the handler uses render
VideoThreadStep ==
    /\ life.threads["video"].st = "run"
    /\ IF life.threads["video"].pos = "top"
       THEN life' = [life EXCEPT !.threads["video"] =
                        IF @.cancel THEN [@ EXCEPT !.st = "ended"]
                        ELSE [@ EXCEPT !.pos = "body"]]
       ELSE life' = [life EXCEPT !.threads["video"].pos = "top",
                                 !.stale = Uses("video", TRUE)]
    /\ UNCHANGED <<streamVars, dev, ogl, fn>>

\* DrmDisplayFrame: cancellation enabled and deferred, it acts at the next
\* cancellation point (usleep in the start loop: "top"; the read in
\* drmHandleEvent: "wait").  "body" is a pass of DrmFrame2Drm, which
\* always leaves through page_flip: one drmModeAtomicCommit asking for
\* DRM_MODE_PAGE_FLIP_EVENT; a rejected commit is only logged, and the
\* display rejects a commit while the event of the last one is not
\* handled yet.  life.flip is the state of the last commit accepted or
\* tried: "out" while its completion event has not been handled.
\* drmHandleEvent blocks until an event can be read or fails; a failure is
\* only logged, pflip_pending is reset and the next pass starts.
PresentationThreadStep ==
    /\ life.threads["presentation"].st = "run"
    /\ LET th == life.threads["presentation"] IN
       \/ /\ th.pos = "top"
          /\ life' = [life EXCEPT
                         !.threads["presentation"] =
                             IF @.cancel THEN [@ EXCEPT !.st = "ended"]
                             ELSE [@ EXCEPT !.pos = "body"],
                         !.stale = Uses("presentation", ~th.cancel)]
       \/ /\ th.pos = "body"
          /\ \E ok \in BOOLEAN :
               life' = [life EXCEPT
                           !.threads["presentation"].pos = "wait",
                           !.flip = IF @ = "out" THEN "out"
                                    ELSE IF ok THEN "out" ELSE "rejected",
                           !.stale = Uses("presentation", TRUE)]
       \/ /\ th.pos = "wait" /\ th.cancel
          /\ life' = [life EXCEPT !.threads["presentation"].st = "ended"]
       \/ /\ th.pos = "wait" /\ ~th.cancel
          /\ \E ret \in {0, -1} :
               /\ ret = 0 => life.flip = "out"
               /\ life' = [life EXCEPT
                              !.threads["presentation"].pos = "body",
                              !.flip = IF ret = 0 THEN "done" ELSE @,
                              !.pflip_pending = FALSE,
                              !.stale = Uses("presentation", TRUE)]
    /\ UNCHANGED <<streamVars, dev, ogl, fn>>

\* VideoFilterThread: it polls and filters using render, and returns through
\* closing (writing render->FilterInit and Deint_Close) once the filter
\* reports the end of the stream; nothing cancels it
FilterThreadStep ==
    /\ life.threads["deinterlacer"].st = "run"
    /\ \/ life' = [life EXCEPT
                      !.threads["deinterlacer"].pos = IF @ = "top" THEN "body" ELSE "top",
                      !.stale = Uses("deinterlacer", TRUE)]
       \/ /\ life.threads["deinterlacer"].pos = "body"
          /\ life' = [life EXCEPT !.threads["deinterlacer"].st = "ended",
                                  !.stale = Uses("deinterlacer", TRUE)]
    /\ UNCHANGED <<streamVars, dev, ogl, fn>>

\* VideoExit, statement by statement.  VideoThreadExit: with VideoThread set
\* cancel the display handler thread, cancel the presentation thread, join
\* the display handler thread, reset VideoThread; then VideoExit handles
\* events while render->pflip_pending is set (a flag that is reset at 602
\* and set nowhere), restores the CRTC and destroys the OSD and black
\* buffers through render
VideoExit ==
    /\ \/ /\ life.xpc = "idle"
          /\ life' = [life EXCEPT
                         !.xpc = IF life.VideoThread # 0 THEN "cancel" ELSE "restore"]
       \/ /\ life.xpc = "cancel"
          /\ life' = [life EXCEPT !.threads["video"].cancel = TRUE, !.xpc = "cancel2"]
       \/ /\ life.xpc = "cancel2"
          /\ life' = [life EXCEPT
                         !.threads["presentation"].cancel =
                             IF life.threads["presentation"].st = "run" THEN TRUE ELSE @,
                         !.xpc = "join"]
       \/ /\ life.xpc = "join" /\ life.threads["video"].st = "ended"
          /\ life' = [life EXCEPT !.threads["video"].st = "joined",
                                  !.VideoThread = 0, !.xpc = "restore"]
       \/ /\ life.xpc = "restore"
          /\ IF life.pflip_pending
             THEN \E ret \in {0, -1} :
                    /\ ret = 0 => life.flip = "out"
                    /\ life' = [life EXCEPT
                                   !.flip = IF ret = 0 THEN "done" ELSE @,
                                   !.xpc = IF ret = 0 THEN @ ELSE "exited",
                                   !.stale = Uses("caller", TRUE)]
             ELSE life' = [life EXCEPT !.xpc = "exited",
                                       !.stale = Uses("caller", TRUE)]
    /\ UNCHANGED <<streamVars, dev, ogl, fn>>

\* VideoDelRender: free(render).  The caller is taken to destroy the context
\* after VideoExit has returned.
VideoDelRender ==
    /\ life.xpc = "exited" /\ life.render = "live"
    /\ life' = [life EXCEPT !.render = "freed"]
    /\ UNCHANGED <<streamVars, dev, ogl, fn>>

LifeNext ==
    \/ VideoDisplayWakeup \/ FilterThreadCreate
    \/ VideoThreadStep \/ PresentationThreadStep \/ FilterThreadStep
    \/ VideoExit \/ VideoDelRender

LifeInit ==
    RenderInit /\ dev = NotExamined /\ LifeIdle /\ ogl = NotExamined /\ FnIdle

LifeSpec == LifeInit /\ [][LifeNext]_vars

\* a thread that was created has ended and has been joined
Gone(t) == life.threads[t].st \in {"none", "joined"}

\* C21: the render context is destroyed only after every thread that
\* references it (display handler, presentation, deinterlacer) has
\* terminated and been joined; no such thread runs against a freed context
C21_FreedAfterThreadsJoined ==
    /\ life.render = "freed" => \A t \in ThreadNames : Gone(t)
    /\ life.stale \cap ThreadNames = {}

\* what VideoThreadExit does establish: the display handler thread is joined
\* before VideoExit goes on, and so before the context is freed
VideoThreadJoined ==
    /\ life.xpc \in {"restore", "exited"} => Gone("video")
    /\ life.render = "freed" => Gone("video")
    /\ "video" \notin life.stale /\ "caller" \notin life.stale

\* ------------------------------------------------------- flips and events
\* the presentation thread starts the next pass of DrmFrame2Drm
NextPass ==
    /\ life.threads["presentation"].pos = "wait"
    /\ life'.threads["presentation"].pos = "body"

\* a pass of DrmFrame2Drm ends with its commit
PassCommits ==
    /\ life.threads["presentation"].pos = "body"
    /\ life'.threads["presentation"].pos = "wait"

\* C31: page-flip commits and completion events strictly alternate: the
\* next pass starts only after the completion event of the last commit has
\* been handled, and no commit is issued while a flip is outstanding
C31_FlipsAlternate ==
    [][/\ NextPass => life'.flip = "done"
       /\ PassCommits => life.flip # "out"]_vars

\* what the loop does establish: a pass ends in one commit and then reaches
\* drmHandleEvent, and the flag pflip_pending is never set
OneCommitPerPass ==
    /\ [](~life.pflip_pending)
    /\ [][/\ life.threads["presentation"].pos = "body"
          /\ life'.threads["presentation"].pos # "body"
          => PassCommits /\ life'.flip \in {"out", "rejected"}]_vars

\* VideoExit goes on to restore the CRTC and destroy the buffers
ExitRestores == life.xpc = "restore" /\ life'.xpc = "exited"

\* C34: with a page flip outstanding when VideoExit runs, VideoExit waits
\* for its completion event before it restores the CRTC and destroys the
\* black and OSD buffers
C34_ExitWaitsForFlip == [][ExitRestores => life.flip # "out"]_vars

\* ------------------------------------------------------ the frame in hand
\* the engine is at buffer acquisition or at the sync steps, or has faulted
\* in them
EngineHasFrame == epc \in {"acquire", "audioclock", "droppop", "segv"}

\* C32: whatever the controller does to the closing flag, the presentation
\* engine reaches buffer acquisition and the sync steps only with a frame
\* read from a non-empty ring 2; it never works on a null frame
C32_FrameReadFromRing == EngineHasFrame => eframe # NULL

\* ------------------------------------------------------ the width of diff
\* a 64-bit value v in two parts, v = h * Radix + l with 0 <= l < Radix
Radix == 2^30

\* frame->pts - audio_clock - VideoAudioDelay, an int64_t expression: exact
\* for operands of 33 bits
WideDiff(pts, clock, delay) ==
    LET d == pts.l - clock.l - delay
    IN [h |-> pts.h - clock.h + (d \div Radix), l |-> d % Radix]

\* int diff = ...: the conversion to int keeps the low 32 bits as a signed
\* number
ToInt(w) == (((w.h + 2) % 4) - 2) * Radix + w.l

\* the policy of DrmFrame2Drm applied to a difference that was not cut
WideVerdict(w) ==
    IF w.h > 0 \/ (w.h = 0 /\ w.l > DupMs * TicksPerMs) THEN "dup"
    ELSE IF w.h < 0 - 1 \/ (w.h = 0 - 1 /\ w.l < Radix - DropMs * TicksPerMs)
    THEN "drop"
    ELSE "show"

\* pts and audio clock are 33-bit counts of the 90 kHz clock: values over
\* that range, near both ends of each part
Timestamps ==
    {[h |-> h, l |-> l] : h \in {0, 1, 2, 3, 4, 2^(33 - 30) - 1},
                          l \in {0, 2250, 4951, Radix - 1}}

\* audioclock: the difference is computed and the frame classified
SyncDecision ==
    /\ fn.op = "none"
    /\ \E pts \in Timestamps, clock \in Timestamps, delay \in {0, 900} :
         LET diff == ToInt(WideDiff(pts, clock, delay))
         IN fn' = [op |-> "sync", pts |-> pts, clock |-> clock, delay |-> delay,
                   diff |-> diff, verdict |-> SyncVerdict(diff, 0)]
    /\ UNCHANGED <<streamVars, dev, life, ogl>>

SyncSpec == Init /\ [][SyncDecision]_vars

\* C33: diff is pts - clock - offset exactly for all 33-bit timestamps: a
\* frame whose difference is outside [-25 ms, +55 ms] is never classified as
\* in the window, and a late frame never as early
C33_DiffExact ==
    fn.op = "sync" =>
        LET true == WideVerdict(WideDiff(fn.pts, fn.clock, fn.delay))
        IN /\ fn.verdict = "show" => true = "show"
           /\ true = "drop" => fn.verdict # "dup"

\* what does hold: a difference that fits in 32 bits is classified as it is
DiffExactInInt ==
    fn.op = "sync" =>
        LET d == WideDiff(fn.pts, fn.clock, fn.delay)
        IN d.h \in {0 - 2, 0 - 1, 0, 1} => fn.verdict = WideVerdict(d)

\* ---------------------------------------------------- the filter's close
\* no filter thread exists: none was started, or the last one has returned
FilterGone == fpc = "none" /\ tails = 0

\* C35: after VideoSetClosing with the filter initialised the filter thread
\* frees the frames of ring 1 and returns, leaving FilterInit = 0,
\* Deint_Close = 0 and ring 1 empty (occupancy 0, read cursor at the write
\* cursor); a frame that arrives after the stream has reopened is not lost
\* to the close
C35_FilterClosesClean ==
    FilterGone =>
        /\ FilterInit = 0 /\ Deint_Close = 0
        /\ FramesFilled = 0 /\ FramesRead = FramesWrite
        /\ queued1 = <<>>

\* --------------------------------------------------- the pixel format
\* longest format list the codec offers, without its terminator
MaxFormats == 3
PixelFormats == {"AV_PIX_FMT_YUV420P", "AV_PIX_FMT_NV12", "AV_PIX_FMT_DRM_PRIME"}
CodecIds == {"AV_CODEC_ID_MPEG2VIDEO", "AV_CODEC_ID_H264", "AV_CODEC_ID_HEVC",
             "AV_CODEC_ID_VP9"}

\* *fmt: the entry fmt points to; the list ends with AV_PIX_FMT_NONE
FormatAt(fmts, i) == IF i <= Len(fmts) THEN fmts[i] ELSE "AV_PIX_FMT_NONE"

\* the decoder calls Video_get_format(render, video_ctx, fmt)
VideoGetFormatCall ==
    /\ fn.op = "none"
    /\ \E codec \in CodecIds, fmts \in SeqsUpTo(PixelFormats, MaxFormats) :
         fn' = [op |-> "Video_get_format", codec_id |-> codec, fmts |-> fmts,
                fmt |-> 1, pc |-> "while", ret |-> "none"]
    /\ UNCHANGED <<streamVars, dev, life, ogl>>

\* while (*fmt != AV_PIX_FMT_NONE); after the loop the default choice of
\* avcodec_default_get_format is returned
VideoGetFormatWhile ==
    /\ fn.op = "Video_get_format" /\ fn.pc = "while"
    /\ fn' = IF FormatAt(fn.fmts, fn.fmt) # "AV_PIX_FMT_NONE"
             THEN [fn EXCEPT !.pc = "body"]
             ELSE [fn EXCEPT !.pc = "return", !.ret = "default"]
    /\ UNCHANGED <<streamVars, dev, life, ogl>>

\* the body of the loop: three tests that return; the statement fmt++ stands
\* inside the block of the third test after its return, so that no pass
\* through the body advances fmt
VideoGetFormatBody ==
    /\ fn.op = "Video_get_format" /\ fn.pc = "body"
    /\ LET f == FormatAt(fn.fmts, fn.fmt)
       IN fn' = IF f = "AV_PIX_FMT_YUV420P" /\ fn.codec_id = "AV_CODEC_ID_MPEG2VIDEO"
                THEN [fn EXCEPT !.pc = "return", !.ret = "AV_PIX_FMT_YUV420P"]
                ELSE IF f = "AV_PIX_FMT_NV12" /\ fn.codec_id = "AV_CODEC_ID_H264"
                THEN [fn EXCEPT !.pc = "return", !.ret = "AV_PIX_FMT_NV12"]
                ELSE IF f = "AV_PIX_FMT_NV12" /\ fn.codec_id = "AV_CODEC_ID_HEVC"
                THEN [fn EXCEPT !.pc = "return", !.ret = "AV_PIX_FMT_NV12"]
                ELSE [fn EXCEPT !.pc = "while"]
    /\ UNCHANGED <<streamVars, dev, life, ogl>>

VideoGetFormatNext ==
    VideoGetFormatCall \/ VideoGetFormatWhile \/ VideoGetFormatBody

\* the calling thread keeps running
GetFormatSpec ==
    Init /\ [][VideoGetFormatNext]_vars /\ WF_vars(VideoGetFormatNext)

\* the format the callback is to pick for a codec from a list
Preferred(codec, fmts) ==
    IF codec = "AV_CODEC_ID_MPEG2VIDEO" /\ "AV_PIX_FMT_YUV420P" \in Range(fmts)
    THEN "AV_PIX_FMT_YUV420P"
    ELSE IF codec \in {"AV_CODEC_ID_H264", "AV_CODEC_ID_HEVC"}
            /\ "AV_PIX_FMT_NV12" \in Range(fmts)
    THEN "AV_PIX_FMT_NV12"
    ELSE "default"

\* C36: Video_get_format terminates for every codec and every terminated
\* format list, returning YUV420P for MPEG-2 or NV12 for H.264/HEVC when the
\* list offers it at any position and the default choice otherwise
C36_GetFormatTerminates ==
    (fn.op = "Video_get_format") ~>
        (/\ fn.op = "Video_get_format" /\ fn.pc = "return"
         /\ fn.ret = Preferred(fn.codec_id, fn.fmts))

\* what does hold: a call that returns has looked at the first entry only,
\* and its result is the preferred format
GetFormatFirstEntry ==
    (fn.op = "Video_get_format" /\ fn.pc = "return") =>
        /\ fn.fmt = 1
        /\ fn.ret = Preferred(fn.codec_id, fn.fmts)
        /\ fn.ret = Preferred(fn.codec_id, <<FormatAt(fn.fmts, 1)>>)

\* ------------------------------------------------- the connector loop
\* the connectors the loop of Drm_find_dev looks at, in order (1 is the
\* first connector); a walk that does not end is cut after Len(cs) + 1
\* rounds
RECURSIVE ConnectorWalk(_, _, _)
ConnectorWalk(cs, i, rounds) ==
    IF i >= Len(cs) \/ rounds > Len(cs) THEN <<>>
    ELSE <<i + 1>> \o ConnectorWalk(cs, Len(cs[i + 1].modes) + 1, rounds + 1)

\* C37: the connector enumeration of Drm_find_dev ends and looks at every
\* connector exactly once, for every number of connectors and of modes
C37_ConnectorsOnce ==
    dev.find_ret \in {"ok", "hang", "fault"} =>
        /\ dev.find_ret # "hang"
        /\ ConnectorWalk(dev.card.connectors, 0, 0)
              = [k \in 1 .. Len(dev.card.connectors) |-> k]

\* what does hold: the first connector is looked at first, and with a
\* single connector the loop ends after it unless it lists no mode
FirstConnectorFirst ==
    (dev.find_ret # "none" /\ Len(dev.card.connectors) > 0) =>
        /\ Head(ConnectorWalk(dev.card.connectors, 0, 0)) = 1
        /\ (Len(dev.card.connectors) = 1 /\ Len(dev.card.connectors[1].modes) > 0)
              => dev.find_ret # "hang"

\* C38: after Drm_find_dev has returned success the video plane and the OSD
\* plane are two distinct non-zero plane ids, for every order of the planes
\* and of the formats a plane lists
C38_TwoDistinctPlanes ==
    DevFound =>
        /\ dev.video_plane # 0 /\ dev.osd_plane # 0
        /\ dev.video_plane # dev.osd_plane

\* what does hold: the two ids differ whenever the video plane lists
\* ARGB8888 before NV12 or not at all
DistinctUnlessNV12First ==
    (DevFound /\ PlanesKnown /\ dev.video_plane = dev.osd_plane) =>
        LET fs == dev.card.planes[PlaneIndex(dev.video_plane)].formats
        IN \E a, b \in 1 .. Len(fs) : a < b /\ fs[a] = "NV12" /\ fs[b] = "ARGB8888"

\* size of the mapped OSD buffer: pitch[0] * height, with rows of 4 bytes
\* per pixel of the mode VideoInit has taken
BufOsdSize == 4 * dev.mode.hdisplay * dev.mode.vdisplay

\* C39: every VideoOsdDrawARGB writes inside the mapped OSD buffer only: the
\* offset of each row is not negative and the row ends within the buffer,
\* for any sequence of draws at on-screen positions between clears
C39_DrawInsideBuffer ==
    (OsdReady /\ dev.osd_call.op = "draw") =>
        /\ dev.osd_call.lo >= 0
        /\ dev.osd_call.hi <= BufOsdSize

\* what does hold: with the planes swapped by zpos the origin stays (0, 0)
\* and every image on the screen is copied inside the buffer
DrawInsideWithZpos ==
    (OsdReady /\ dev.use_zpos # 0 /\ dev.osd_call.op = "draw") =>
        /\ dev.buf_osd.x = 0 /\ dev.buf_osd.y = 0
        /\ dev.osd_call.lo >= 0
        /\ dev.osd_call.hi <= BufOsdSize

\* ------------------------------------------------- the OSD command queue
\* the number of commands handed to DoCmd in one behaviour
MaxCmds == 4

oglVars == <<streamVars, dev, life, fn>>

\* DoCmd is entered by thread p with a new command
DoCmdCall(p) ==
    /\ ogl.prod[p].pc = "idle"
    /\ ogl.issued < MaxCmds
    /\ ogl' = [ogl EXCEPT !.issued = @ + 1,
                          !.prod[p] = [pc |-> "wait", cmd |-> ogl.issued + 1]]
    /\ UNCHANGED oglVars

\* while (stalled) SleepMs(10): the thread goes on when it reads stalled
\* as false
DoCmdWait(p) ==
    /\ ogl.prod[p].pc = "wait"
    /\ ~ogl.stalled
    /\ ogl' = [ogl EXCEPT !.prod[p].pc = "push"]
    /\ UNCHANGED oglVars

\* Lock(); commands.push(cmd); Unlock() (doSignal only decides on the
\* wait->Signal() that shortens the worker's Wait(20))
DoCmdPush(p) ==
    /\ ogl.prod[p].pc = "push"
    /\ ogl' = [ogl EXCEPT !.commands = Append(@, ogl.prod[p].cmd),
                          !.prod[p].pc = "size"]
    /\ UNCHANGED oglVars

\* if (commands.size() > OGL_CMDQUEUE_SIZE): the test, made without the
\* lock; when it fails the call returns
DoCmdSize(p) ==
    /\ ogl.prod[p].pc = "size"
    /\ ogl' = [ogl EXCEPT !.prod[p].pc =
                   IF Len(ogl.commands) > OGL_CMDQUEUE_SIZE THEN "stall" ELSE "idle"]
    /\ UNCHANGED oglVars

\* stalled = true; wait->Signal(); return
DoCmdStall(p) ==
    /\ ogl.prod[p].pc = "stall"
    /\ ogl' = [ogl EXCEPT !.stalled = TRUE, !.prod[p].pc = "idle"]
    /\ UNCHANGED oglVars

\* Action: the four initialisations; a failure ends the thread, success is
\* followed by stalled = false
ActionInit ==
    /\ ogl.wpc = "init"
    /\ \E ok \in BOOLEAN :
         ogl' = IF ok THEN [ogl EXCEPT !.wpc = "loop", !.stalled = FALSE]
                      ELSE [ogl EXCEPT !.wpc = "ended"]
    /\ UNCHANGED oglVars

\* while (Running()): with a command in the queue, take the front one under
\* the lock (an empty queue is wait->Wait(20) and the same test again)
ActionPop ==
    /\ ogl.wpc = "loop"
    /\ ogl.running
    /\ ogl.commands # <<>>
    /\ ogl' = [ogl EXCEPT !.wcmd = Head(ogl.commands), !.commands = Tail(@),
                          !.wpc = "exec"]
    /\ UNCHANGED oglVars

\* cmd->Execute(); delete cmd; stalled is reset when the queue is shorter
\* than half of OGL_CMDQUEUE_SIZE
ActionExecute ==
    /\ ogl.wpc = "exec"
    /\ ogl' = [ogl EXCEPT !.executed = Append(@, ogl.wcmd),
                          !.stalled = IF @ /\ Len(ogl.commands) < OGL_CMDQUEUE_SIZE \div 2
                                      THEN FALSE ELSE @,
                          !.wpc = "loop"]
    /\ UNCHANGED oglVars

\* Running() is false: Cleanup, the thread ends
ActionEnd ==
    /\ ogl.wpc = "loop"
    /\ ~ogl.running
    /\ ogl' = [ogl EXCEPT !.wpc = "ended"]
    /\ UNCHANGED oglVars

\* Stop: Cancel(2) clears the running flag and waits for the thread
StopCancel ==
    /\ ogl.stop = "none"
    /\ ogl' = [ogl EXCEPT !.running = FALSE, !.stop = "cancel"]
    /\ UNCHANGED oglVars

\* Stop: Cancel(2) returns when the thread has ended, or ends it after two
\* seconds; stalled = false
StopReturn ==
    /\ ogl.stop = "cancel"
    /\ ogl' = [ogl EXCEPT !.wpc = "ended", !.stalled = FALSE, !.stop = "done"]
    /\ UNCHANGED oglVars

DoCmd(p) ==
    DoCmdCall(p) \/ DoCmdWait(p) \/ DoCmdPush(p) \/ DoCmdSize(p) \/ DoCmdStall(p)

\* the steps of a call of DoCmd that is under way
DoCmdRuns(p) == DoCmdWait(p) \/ DoCmdPush(p) \/ DoCmdSize(p) \/ DoCmdStall(p)

Action == ActionInit \/ ActionPop \/ ActionExecute \/ ActionEnd

OglNext ==
    \/ \E p \in Producers : DoCmdCall(p)
    \/ \E p \in Producers : DoCmdWait(p)
    \/ \E p \in Producers : DoCmdPush(p)
    \/ \E p \in Producers : DoCmdSize(p)
    \/ \E p \in Producers : DoCmdStall(p)
    \/ ActionInit
    \/ ActionPop
    \/ ActionExecute
    \/ ActionEnd
    \/ StopCancel
    \/ StopReturn

\* every thread is scheduled: the worker and each thread inside DoCmd take
\* their next step; nobody is bound to call DoCmd or Stop
OglInit ==
    RenderInit /\ dev = NotExamined /\ life = NotExamined /\ OglIdle /\ FnIdle

OglSpec ==
    /\ OglInit
    /\ [][OglNext]_vars
    /\ WF_vars(Action)
    /\ \A p \in Producers : WF_vars(DoCmdRuns(p))

\* thread p is inside DoCmd
InDoCmd(p) == ogl.prod[p].pc # "idle"

\* the call of thread p has returned and the worker has executed its command
Served(p) == ogl.prod[p].pc = "idle" /\ ogl.prod[p].cmd \in Range(ogl.executed)

\* C40: every call of DoCmd returns and its command is executed by the
\* worker; a thread held by the stalled flag is released (stated for a
\* worker thread that does not end)
C40_DoCmdServed ==
    \A p \in Producers : InDoCmd(p) ~> (ogl.wpc = "ended" \/ Served(p))

\* what does hold: the commands executed and those in the queue are the
\* commands pushed, each once, and a thread's commands keep their order
ExecutedOnce ==
    LET all == ogl.executed \o (IF ogl.wpc = "exec" THEN <<ogl.wcmd>> ELSE <<>>)
                            \o ogl.commands
    IN  /\ \A i, j \in 1 .. Len(all) : all[i] = all[j] => i = j
        /\ Range(all) \subseteq 1 .. ogl.issued

\* what does hold: a command is executed in the order it was pushed
ExecutedInOrder ==
    [][\A c \in Range(ogl.commands) :
           c \in Range(ogl'.executed) =>
               /\ c = Head(ogl.commands)
               /\ ogl'.executed = Append(ogl.executed, c)]_vars

====
